---- MODULE Spec2Model ----
(***************************************************************************)
(* A model of pdf-forge: the HTML parser and body_children (dom.rs), the   *)
(* style resolver (style.rs), text wrapping (fonts.rs), the paginator      *)
(* (pagination.rs), the orchestrator (pipeline.rs), the Layout Config JSON *)
(* (layout_config.rs), the C ABI (ffi.rs) and the list markers of the      *)
(* layout builder (layout.rs).  Each part has its own                      *)
(* specification: its Init draws the part's input from bounded sets and    *)
(* its actions are the calls, or the iterations of the main loop, of the   *)
(* code.  Lengths are f32 points in the source and integers here.          *)
(***************************************************************************)
EXTENDS Integers, Sequences, FiniteSets, TLC

VARIABLES
    \* ---- paginate (pagination.rs) ----
    boxes,              \* paginate's `boxes` argument (document coordinates)
    geom,               \* page_width, page_height, page_margin arguments
    flat,               \* `flat`: the flattened top-level sequence
    box_i,              \* position of the `for pbox in &flat` loop (1-based)
    config,             \* `config`: the LayoutConfig being built
    current_page,       \* `current_page`
    page_start_doc_y,   \* `page_start_doc_y`
    pag_pc              \* "idle" | "loop" | "done"

VARIABLES
    \* ---- parse_html (dom.rs) ----
    input,              \* Parser.input, a sequence of characters
    pos,                \* Parser.pos, the number of characters consumed
    stack,              \* the active parse_element / parse_nodes calls
    par_pc,             \* "idle" | "nodes" | "attrs" | "done"
    forest              \* the Vec<DomNode> parse_html returns

VARIABLES
    \* ---- build_styled_tree (style.rs) ----
    dom_path,           \* the elements from a root of the forest down to a leaf
    dom_text,           \* the text child of the innermost element, if any
    styled,             \* the computed styles of dom_path resolved so far
    styled_text,        \* the style of the styled Text, once produced
    sty_pc              \* "idle" | "run" | "done"

VARIABLES
    \* ---- wrap_text (fonts.rs) ----
    w_text,             \* `text`, a sequence of characters
    w_font_size,        \* `font_size`
    w_bold,             \* `bold`
    w_max_width,        \* `max_width`
    w_paragraphs,       \* what is left of `text.split('\n')`
    w_lines,            \* `lines`
    w_pc                \* "idle" | "start" | "loop" | "done"

VARIABLES
    \* ---- generate_pdf / compute_layout_config (pipeline.rs) ----
    pl_config,          \* `config`: the PipelineConfig of both calls
    pl_doc,             \* the document `html` stands for, as its top-level elements
    pl_render,          \* what render_pdf returns for this document: "Ok" | "Err"
    pl_generate,        \* the result of generate_pdf, once called
    pl_compute,         \* the result of compute_layout_config, once called
    pl_pc               \* "idle" | "run"

VARIABLES
    \* ---- the C ABI (ffi.rs) ----
    LAST_ERROR,         \* the thread-local LAST_ERROR, one slot per thread
    ffi_calls,          \* how many ABI calls have been made
    ffi_recent,         \* per thread: the latest fallible call made on it
    ffi_last,           \* the latest ABI call: who, what, arguments, result
    ffi_pc              \* "idle" | "run"

VARIABLES
    \* ---- LayoutBuilder::build_element_node (layout.rs) ----
    ls_tag,             \* `tag`: the element whose children are built
    ls_children,        \* `children`: its styled children
    list_counter,       \* `list_counter`
    node_content,       \* node_content of the children built so far, in order
    ls_pc               \* "idle" | "loop" | "done"

VARIABLES
    \* ---- body_children (dom.rs) ----
    bc_nodes,           \* `nodes`: the forest body_children is called with
    bc_result,          \* what it returns, once called
    bc_pc               \* "idle" | "run" | "done"

VARIABLES
    \* ---- LayoutConfig::to_json / from_json (layout_config.rs) ----
    js_cfg,             \* the LayoutConfig paginate returned
    js_json,            \* the JSON document to_json wrote, once called
    js_back,            \* what from_json returned for it, once called
    js_pc               \* "idle" | "run"

pagVars == <<boxes, geom, flat, box_i, config, current_page, page_start_doc_y, pag_pc>>
parVars == <<input, pos, stack, par_pc, forest>>

styVars == <<dom_path, dom_text, styled, styled_text, sty_pc>>
wrapVars == <<w_text, w_font_size, w_bold, w_max_width, w_paragraphs, w_lines, w_pc>>

plVars == <<pl_config, pl_doc, pl_render, pl_generate, pl_compute, pl_pc>>
ffiVars == <<LAST_ERROR, ffi_calls, ffi_recent, ffi_last, ffi_pc>>
bodyVars == <<bc_nodes, bc_result, bc_pc>>
jsonVars == <<js_cfg, js_json, js_back, js_pc>>
listVars == <<ls_tag, ls_children, list_counter, node_content, ls_pc>>

vars == <<pagVars, parVars, styVars, wrapVars, plVars, ffiVars, bodyVars, jsonVars, listVars>>
notPag == <<parVars, styVars, wrapVars, plVars, ffiVars, bodyVars, jsonVars, listVars>>
notPar == <<pagVars, styVars, wrapVars, plVars, ffiVars, bodyVars, jsonVars, listVars>>
notSty == <<pagVars, parVars, wrapVars, plVars, ffiVars, bodyVars, jsonVars, listVars>>
notWrap == <<pagVars, parVars, styVars, plVars, ffiVars, bodyVars, jsonVars, listVars>>
notPl == <<pagVars, parVars, styVars, wrapVars, ffiVars, bodyVars, jsonVars, listVars>>
notFfi == <<pagVars, parVars, styVars, wrapVars, plVars, bodyVars, jsonVars, listVars>>
notBody == <<pagVars, parVars, styVars, wrapVars, plVars, ffiVars, jsonVars, listVars>>
notJson == <<pagVars, parVars, styVars, wrapVars, plVars, ffiVars, bodyVars, listVars>>
notList == <<pagVars, parVars, styVars, wrapVars, plVars, ffiVars, bodyVars, jsonVars>>

\* The state of a stage that is not running.
PagIdle ==
    /\ boxes = <<>> /\ geom = [w |-> 0, h |-> 0, m |-> 0] /\ flat = <<>> /\ box_i = 0
    /\ config = [title |-> "", page_width_pt |-> 0, page_height_pt |-> 0, pages |-> <<>>]
    /\ current_page = [page_index |-> 0, boxes |-> <<>>]
    /\ page_start_doc_y = 0 /\ pag_pc = "idle"
ParIdle ==
    /\ input = <<>> /\ pos = 0 /\ stack = <<>> /\ par_pc = "idle" /\ forest = <<>>
StyIdle ==
    /\ dom_path = <<>> /\ dom_text = [some |-> FALSE, v |-> <<>>] /\ styled = <<>>
    /\ styled_text = [some |-> FALSE, v |-> <<>>] /\ sty_pc = "idle"
WrapIdle ==
    /\ w_text = <<>> /\ w_font_size = 0 /\ w_bold = FALSE /\ w_max_width = 0
    /\ w_paragraphs = <<>> /\ w_lines = <<>> /\ w_pc = "idle"
PlIdle ==
    /\ pl_config = <<>> /\ pl_doc = <<>> /\ pl_render = "Ok"
    /\ pl_generate = <<>> /\ pl_compute = <<>> /\ pl_pc = "idle"
FfiIdle ==
    /\ LAST_ERROR = <<>> /\ ffi_calls = 0 /\ ffi_recent = <<>> /\ ffi_last = <<>>
    /\ ffi_pc = "idle"
BodyIdle == bc_nodes = <<>> /\ bc_result = <<>> /\ bc_pc = "idle"
JsonIdle == js_cfg = <<>> /\ js_json = <<>> /\ js_back = <<>> /\ js_pc = "idle"
ListIdle ==
    /\ ls_tag = <<>> /\ ls_children = <<>> /\ list_counter = 0
    /\ node_content = <<>> /\ ls_pc = "idle"

Max(a, b) == IF a >= b THEN a ELSE b

(***************************************************************************)
(* Bounds.                                                                 *)
(***************************************************************************)
MaxBoxes == 3
MaxChunks == 4

(***************************************************************************)
(*                           HTML PARSER (dom.rs)                          *)
(***************************************************************************)

\* The strings the inputs are concatenated from.  A character is a string
\* of length one; a string is a sequence of characters.
Chunks ==
    { <<"<">>, <<">">>, <<"/">>, <<"=">>, <<"\"">>, <<"'">>, <<" ">>, <<"a">>,
      <<"i", "m", "g">>, <<"<", "!", "-", "-">>, <<"-", "-", ">">>, <<"<", "!">> }

RECURSIVE Concat(_)
Concat(ss) == IF ss = <<>> THEN <<>> ELSE Head(ss) \o Concat(Tail(ss))

\* char::is_whitespace and char::is_alphanumeric on the model's characters.
is_whitespace(c) == c \in {" ", "\n", "\t"}
is_alphanumeric(c) ==
    c \in {"a", "b", "d", "e", "g", "h", "i", "l", "m", "n", "o", "p", "r", "s",
           "t", "u", "v", "x", "y", "1", "2", "3"}

\* Tag::from_str; Unknown keeps the name.
KnownTag(k) == [k |-> k, name |-> <<>>]
from_str(n) ==
    CASE n = <<"d", "i", "v">> -> KnownTag("Div")
      [] n = <<"p">> -> KnownTag("P")
      [] n = <<"h", "1">> -> KnownTag("H1")
      [] n = <<"h", "2">> -> KnownTag("H2")
      [] n = <<"h", "3">> -> KnownTag("H3")
      [] n = <<"u", "l">> -> KnownTag("Ul")
      [] n = <<"o", "l">> -> KnownTag("Ol")
      [] n = <<"l", "i">> -> KnownTag("Li")
      [] n = <<"t", "a", "b", "l", "e">> -> KnownTag("Table")
      [] n = <<"t", "r">> -> KnownTag("Tr")
      [] n = <<"t", "d">> -> KnownTag("Td")
      [] n = <<"t", "h">> -> KnownTag("Th")
      [] n = <<"s", "p", "a", "n">> -> KnownTag("Span")
      [] n = <<"i", "m", "g">> -> KnownTag("Img")
      [] n = <<"b", "o", "d", "y">> -> KnownTag("Body")
      [] n = <<"h", "t", "m", "l">> -> KnownTag("Html")
      [] n = <<"h", "e", "a", "d">> -> KnownTag("Head")
      [] OTHER -> [k |-> "Unknown", name |-> n]

\* DomNode: Element(ElementNode) or Text(String).  `attributes` is the
\* HashMap as a set of <<key, value>> pairs with distinct keys.
ElementNode(tag, attributes, children) ==
    [type |-> "Element", tag |-> tag, attributes |-> attributes,
     children |-> children, text |-> <<>>]
TextNode(text) ==
    [type |-> "Text", tag |-> KnownTag("None"), attributes |-> {},
     children |-> <<>>, text |-> text]
insert(attributes, key, value) ==
    {kv \in attributes : kv[1] # key} \cup {<<key, value>>}

\* Parser::eof, starts_with, current_char, advance at cursor p.
eof(p) == p >= Len(input)
starts_with(p, str) ==
    /\ p + Len(str) <= Len(input)
    /\ SubSeq(input, p + 1, p + Len(str)) = str
current_char(p) == input[p + 1]
advance(p, n) == IF p + n <= Len(input) THEN p + n ELSE Len(input)

\* `while !self.eof() && self.current_char().is_whitespace() { advance(1) }`
RECURSIVE skip_whitespace(_)
skip_whitespace(p) ==
    IF ~eof(p) /\ is_whitespace(current_char(p)) THEN skip_whitespace(advance(p, 1)) ELSE p

skip_whitespace_preserve(p) ==
    LET q == skip_whitespace(p)
    IN  IF ~eof(q) /\ ~starts_with(q, <<"<">>) THEN p ELSE q

\* `while !self.eof() && !self.starts_with(str) { advance(1) }`
RECURSIVE scan_until(_, _)
scan_until(p, str) ==
    IF ~eof(p) /\ ~starts_with(p, str) THEN scan_until(advance(p, 1), str) ELSE p

\* parse_tag_name: the cursor after the name; the name is input[p+1 .. end].
RECURSIVE tag_name_end(_)
tag_name_end(p) ==
    IF ~eof(p) /\ (is_alphanumeric(current_char(p)) \/ current_char(p) \in {"-", "_"})
    THEN tag_name_end(advance(p, 1)) ELSE p
parse_tag_name(p) ==
    [pos |-> tag_name_end(p), name |-> SubSeq(input, p + 1, tag_name_end(p))]

\* str::replace of one pattern, left to right, non-overlapping.
RECURSIVE replace(_, _, _)
replace(str, pat, rep) ==
    IF Len(str) < Len(pat) THEN str
    ELSE IF SubSeq(str, 1, Len(pat)) = pat
         THEN rep \o replace(SubSeq(str, Len(pat) + 1, Len(str)), pat, rep)
         ELSE <<Head(str)>> \o replace(Tail(str), pat, rep)

decode_entities(str) ==
    LET s1 == replace(str, <<"&", "a", "m", "p", ";">>, <<"&">>)
        s2 == replace(s1, <<"&", "l", "t", ";">>, <<"<">>)
        s3 == replace(s2, <<"&", "g", "t", ";">>, <<">">>)
        s4 == replace(s3, <<"&", "q", "u", "o", "t", ";">>, <<"\"">>)
        s5 == replace(s4, <<"&", "#", "3", "9", ";">>, <<"'">>)
        s6 == replace(s5, <<"&", "a", "p", "o", "s", ";">>, <<"'">>)
    IN  replace(s6, <<"&", "n", "b", "s", "p", ";">>, <<"nbsp">>)

\* skip_comment
skip_comment(p) ==
    LET q == scan_until(advance(p, 4), <<"-", "-", ">">>)
    IN  IF ~eof(q) THEN advance(q, 3) ELSE q

\* parse_node, lines 175-184: doctype / processing instruction.
skip_doctype(p) ==
    LET q == scan_until(p, <<">">>)
    IN  IF ~eof(q) THEN advance(q, 1) ELSE q

\* parse_text
parse_text(p) ==
    LET q == scan_until(p, <<"<">>)
    IN  [pos |-> q, node |-> TextNode(decode_entities(SubSeq(input, p + 1, q)))]

\* parse_attr_value: quoted by " or ', or an unquoted run.
RECURSIVE unquoted_end(_)
unquoted_end(p) ==
    IF ~eof(p) /\ ~(is_whitespace(current_char(p)) \/ current_char(p) \in {">", "/"})
    THEN unquoted_end(advance(p, 1)) ELSE p
quoted_value(p, quote) ==
    LET start == advance(p, 1)
        q == scan_until(start, quote)
    IN  [pos |-> IF ~eof(q) THEN advance(q, 1) ELSE q,
         value |-> decode_entities(SubSeq(input, start + 1, q))]
parse_attr_value(p) ==
    IF starts_with(p, <<"\"">>) THEN quoted_value(p, <<"\"">>)
    ELSE IF starts_with(p, <<"'">>) THEN quoted_value(p, <<"'">>)
    ELSE [pos |-> unquoted_end(p), value |-> SubSeq(input, p + 1, unquoted_end(p))]

\* parse_attribute: the cursor after it, and the (key, value) pair.
parse_attribute(p) ==
    LET k == parse_tag_name(p)
        q == skip_whitespace(k.pos)
    IN  IF ~starts_with(q, <<"=">>)
        THEN [pos |-> q, key |-> k.name, value |-> <<>>]
        ELSE LET v == parse_attr_value(skip_whitespace(advance(q, 1)))
             IN  [pos |-> v.pos, key |-> k.name, value |-> v.value]

\* A frame of `stack`: the element an active parse_element call is building
\* and the `nodes` of the parse_nodes call for its children.  The bottom
\* frame is parse_html's own parse_nodes call.
Frame(elem, nodes) == [elem |-> elem, nodes |-> nodes]
Top == stack[Len(stack)]
SetTop(f) == [stack EXCEPT ![Len(stack)] = f]
\* parse_element returns `node`: the caller's parse_nodes pushes it.
ReturnElement(node) ==
    LET below == stack[Len(stack) - 1]
    IN  Append(SubSeq(stack, 1, Len(stack) - 2),
               Frame(below.elem, Append(below.nodes, node)))

ParInitWith(chunks, maxChunks) ==
    /\ \E n \in 0..maxChunks : \E cs \in [1..n -> chunks] : input = Concat(cs)
    /\ pos = 0
    /\ stack = <<Frame(ElementNode(KnownTag("None"), {}, <<>>), <<>>)>>
    /\ par_pc = "nodes"
    /\ forest = <<>>

ParInit == ParInitWith(Chunks, MaxChunks) /\ PagIdle /\ StyIdle /\ WrapIdle /\ PlIdle /\ FfiIdle
    /\ BodyIdle /\ JsonIdle /\ ListIdle

\* parse_nodes: where the loop test of the current iteration stands.
NodesAt == skip_whitespace_preserve(pos)
NodesLoopExitsMutant == eof(NodesAt)
NodesLoopExits == eof(NodesAt) \/ starts_with(NodesAt, <<"<", "/">>)

\* parse_nodes of parse_html breaks: parse_html returns.
ParseNodesReturn ==
    /\ par_pc = "nodes" /\ NodesLoopExits /\ Len(stack) = 1
    /\ forest' = Top.nodes
    /\ pos' = NodesAt
    /\ par_pc' = "done"
    /\ UNCHANGED <<input, stack>>
    /\ UNCHANGED notPar

\* parse_nodes of an element breaks: parse_element consumes the closing tag
\* (lines 234-244) and returns the element.
close_tag(p) ==
    IF starts_with(p, <<"<", "/">>)
    THEN LET q == skip_whitespace(parse_tag_name(advance(p, 2)).pos)
         IN  IF starts_with(q, <<">">>) THEN advance(q, 1) ELSE q
    ELSE p
ParseElementClose ==
    /\ par_pc = "nodes" /\ NodesLoopExits /\ Len(stack) > 1
    /\ pos' = close_tag(NodesAt)
    /\ stack' = ReturnElement([Top.elem EXCEPT !.children = Top.nodes])
    /\ UNCHANGED <<input, par_pc, forest>>
    /\ UNCHANGED notPar

\* parse_node: a comment.
ParseComment ==
    /\ par_pc = "nodes" /\ ~NodesLoopExits
    /\ starts_with(NodesAt, <<"<", "!", "-", "-">>)
    /\ pos' = skip_comment(NodesAt)
    /\ UNCHANGED <<input, stack, par_pc, forest>>
    /\ UNCHANGED notPar

\* parse_node: a doctype or processing instruction.
ParseDoctype ==
    /\ par_pc = "nodes" /\ ~NodesLoopExits
    /\ ~starts_with(NodesAt, <<"<", "!", "-", "-">>)
    /\ starts_with(NodesAt, <<"<", "!">>) \/ starts_with(NodesAt, <<"<", "?">>)
    /\ pos' = skip_doctype(NodesAt)
    /\ UNCHANGED <<input, stack, par_pc, forest>>
    /\ UNCHANGED notPar

\* parse_node -> parse_element, lines 201-206: '<' and the tag name.
ParseElementOpen ==
    /\ par_pc = "nodes" /\ ~NodesLoopExits
    /\ starts_with(NodesAt, <<"<">>)
    /\ ~starts_with(NodesAt, <<"<", "!">>) /\ ~starts_with(NodesAt, <<"<", "?">>)
    /\ LET t == parse_tag_name(advance(NodesAt, 1))
       IN  /\ pos' = t.pos
           /\ stack' = Append(stack, Frame(ElementNode(from_str(t.name), {}, <<>>), <<>>))
    /\ par_pc' = "attrs"
    /\ UNCHANGED <<input, forest>>
    /\ UNCHANGED notPar

\* parse_node -> parse_text.
ParseText ==
    /\ par_pc = "nodes" /\ ~NodesLoopExits
    /\ ~starts_with(NodesAt, <<"<">>)
    /\ LET t == parse_text(NodesAt)
       IN  /\ pos' = t.pos
           /\ stack' = SetTop(Frame(Top.elem, Append(Top.nodes, t.node)))
    /\ UNCHANGED <<input, par_pc, forest>>
    /\ UNCHANGED notPar

\* parse_element, lines 209-216: the attribute loop.
AttrsAt == skip_whitespace(pos)
AttrsLoopExits ==
    eof(AttrsAt) \/ starts_with(AttrsAt, <<">">>) \/ starts_with(AttrsAt, <<"/", ">">>)

ParseAttribute ==
    /\ par_pc = "attrs" /\ ~AttrsLoopExits
    /\ LET a == parse_attribute(AttrsAt)
       IN  /\ pos' = a.pos
           /\ stack' = SetTop(Frame([Top.elem EXCEPT
                                       !.attributes = insert(@, a.key, a.value)],
                                    Top.nodes))
    /\ UNCHANGED <<input, par_pc, forest>>
    /\ UNCHANGED notPar

\* `let self_closing = tag == Tag::Img;`
self_closing_mutant(tag) == FALSE
self_closing(tag) == tag = KnownTag("Img")

\* parse_element, lines 218-229: `/>` returns the element; '>' is consumed;
\* img returns without children.
ParseElementSelfClosed ==
    /\ par_pc = "attrs" /\ AttrsLoopExits
    /\ starts_with(AttrsAt, <<"/", ">">>) \/ self_closing(Top.elem.tag)
    /\ pos' = IF starts_with(AttrsAt, <<"/", ">">>) THEN advance(AttrsAt, 2)
              ELSE IF starts_with(AttrsAt, <<">">>) THEN advance(AttrsAt, 1)
              ELSE AttrsAt
    /\ stack' = ReturnElement(Top.elem)
    /\ par_pc' = "nodes"
    /\ UNCHANGED <<input, forest>>
    /\ UNCHANGED notPar

\* parse_element, lines 224-232: '>' is consumed and the children are parsed.
ParseElementChildren ==
    /\ par_pc = "attrs" /\ AttrsLoopExits
    /\ ~starts_with(AttrsAt, <<"/", ">">>) /\ ~self_closing(Top.elem.tag)
    /\ pos' = IF starts_with(AttrsAt, <<">">>) THEN advance(AttrsAt, 1) ELSE AttrsAt
    /\ par_pc' = "nodes"
    /\ UNCHANGED <<input, stack, forest>>
    /\ UNCHANGED notPar

ParNext ==
    \/ ParseNodesReturn
    \/ ParseElementClose
    \/ ParseComment
    \/ ParseDoctype
    \/ ParseElementOpen
    \/ ParseText
    \/ ParseAttribute
    \/ ParseElementSelfClosed
    \/ ParseElementChildren

SpecParse == ParInit /\ [][ParNext]_vars

\* C1 (as claimed): every iteration of the parser's node loop and of its
\* attribute loop either exits the loop or strictly advances the cursor, so
\* parse_html terminates on every input.
C1_EveryIterationAdvances ==
    /\ (par_pc = "attrs" /\ ~AttrsLoopExits) => parse_attribute(AttrsAt).pos > pos
    /\ (par_pc = "nodes" /\ ~NodesLoopExits) =>
          \/ /\ starts_with(NodesAt, <<"<", "!", "-", "-">>)
             /\ skip_comment(NodesAt) > pos
          \/ /\ starts_with(NodesAt, <<"<">>)
             /\ ~starts_with(NodesAt, <<"<", "!", "-", "-">>)
          \/ /\ ~starts_with(NodesAt, <<"<">>)
             /\ parse_text(NodesAt).pos > pos

(***************************************************************************)
(*                        STYLE RESOLVER (style.rs)                        *)
(* Lengths are whole px.  Fractions are kept in thousandths: a colour      *)
(* channel 0.937 is 937, line_height 1.4 is 1400, Percent(33.333) is 33333.*)
(***************************************************************************)

Color(r, g, b, a) == [r |-> r, g |-> g, b |-> b, a |-> a]
BLACK == Color(0, 0, 0, 1000)
WHITE == Color(1000, 1000, 1000, 1000)
TRANSPARENT == Color(0, 0, 0, 0)

Auto == [kind |-> "Auto", v |-> 0]
Px(v) == [kind |-> "Px", v |-> v]
Percent(v) == [kind |-> "Percent", v |-> v]
NoneValue == [some |-> FALSE, v |-> 0]
Some(v) == [some |-> TRUE, v |-> v]

\* impl Default for ComputedStyle
DefaultStyle ==
    [display |-> "Block", flex_direction |-> "Row", flex_wrap |-> "NoWrap",
     flex_grow |-> 0, flex_shrink |-> 1, justify_content |-> "Start",
     align_items |-> "Stretch", gap |-> 0,
     grid_template_columns |-> <<>>, grid_template_rows |-> <<>>,
     width |-> Auto, height |-> Auto, min_width |-> Auto, max_width |-> Auto,
     margin_top |-> 0, margin_right |-> 0, margin_bottom |-> 0, margin_left |-> 0,
     padding_top |-> 0, padding_right |-> 0, padding_bottom |-> 0, padding_left |-> 0,
     border_width |-> 0, border_color |-> BLACK,
     font_size |-> 16, font_weight |-> "Normal", font_family |-> "Helvetica",
     color |-> BLACK, text_align |-> "Left", line_height |-> 1400,
     text_decoration |-> "None", font_style |-> "Normal",
     background_color |-> TRANSPARENT,
     page_break_before |-> FALSE, page_break_after |-> FALSE,
     page_break_inside_avoid |-> FALSE]

\* The Text group of the Computed Style, and the fields outside it.
TextGroup ==
    {"font_size", "font_weight", "font_family", "color", "text_align",
     "line_height", "text_decoration", "font_style"}
NonTextGroup == (DOMAIN DefaultStyle) \ TextGroup

\* base_style_for_tag; `tag` is a Tag of the parser.
base_style_for_tag(tag) ==
    LET s == DefaultStyle
    IN  CASE tag.k = "H1" -> [s EXCEPT !.font_size = 32, !.font_weight = "Bold",
                                       !.margin_top = 16, !.margin_bottom = 12]
          [] tag.k = "H2" -> [s EXCEPT !.font_size = 24, !.font_weight = "Bold",
                                       !.margin_top = 14, !.margin_bottom = 10]
          [] tag.k = "H3" -> [s EXCEPT !.font_size = 20, !.font_weight = "Bold",
                                       !.margin_top = 12, !.margin_bottom = 8]
          [] tag.k = "P" -> [s EXCEPT !.margin_top = 0, !.margin_bottom = 10]
          [] tag.k \in {"Ul", "Ol"} ->
                [s EXCEPT !.margin_top = 0, !.margin_bottom = 10, !.padding_left = 24]
          [] tag.k = "Li" -> [s EXCEPT !.display = "ListItem", !.margin_bottom = 4]
          [] tag.k = "Table" ->
                [s EXCEPT !.display = "Grid", !.border_width = 1,
                          !.page_break_inside_avoid = FALSE]
          [] tag.k = "Tr" -> [s EXCEPT !.display = "TableRow"]
          [] tag.k = "Td" ->
                [s EXCEPT !.display = "TableCell", !.padding_top = 4, !.padding_right = 8,
                          !.padding_bottom = 4, !.padding_left = 8, !.border_width = 1]
          [] tag.k = "Th" ->
                [s EXCEPT !.display = "TableCell", !.padding_top = 4, !.padding_right = 8,
                          !.padding_bottom = 4, !.padding_left = 8, !.border_width = 1,
                          !.font_weight = "Bold",
                          !.background_color = Color(930, 930, 930, 1000)]
          [] tag.k = "Span" -> [s EXCEPT !.display = "Inline"]
          [] tag.k = "Img" -> [s EXCEPT !.display = "InlineBlock"]
          [] tag.k \in {"Div", "Body", "Html", "Head"} -> s
          [] OTHER -> [s EXCEPT !.display = "None"]

\* str::rsplitn(2, '-') and str::strip_prefix on the class tokens of the
\* model, and str::parse::<f32> / parse::<usize> on their numeric parts.
RSplitDash(class) ==
    CASE class = "p-4" -> <<"p", "4">>
      [] class = "px-2" -> <<"px", "2">>
      [] class = "py-2" -> <<"py", "2">>
      [] class = "pt-1" -> <<"pt", "1">>
      [] class = "pr-1" -> <<"pr", "1">>
      [] class = "pb-1" -> <<"pb", "1">>
      [] class = "pl-1" -> <<"pl", "1">>
      [] class = "m-4" -> <<"m", "4">>
      [] class = "mx-2" -> <<"mx", "2">>
      [] class = "my-2" -> <<"my", "2">>
      [] class = "mt-2" -> <<"mt", "2">>
      [] class = "mr-2" -> <<"mr", "2">>
      [] class = "mb-2" -> <<"mb", "2">>
      [] class = "ml-2" -> <<"ml", "2">>
      [] class = "gap-2" -> <<"gap", "2">>
      [] class = "w-10" -> <<"w", "10">>
      [] class = "h-5" -> <<"h", "5">>
      [] class = "grid-cols-3" -> <<"grid-cols", "3">>
      [] class = "text-red-500" -> <<"text-red", "500">>
      [] class = "bg-gray-100" -> <<"bg-gray", "100">>
      [] class = "border-black" -> <<"border", "black">>
      [] class = "p-x" -> <<"p", "x">>
      [] class = "text-huge" -> <<"text", "huge">>
      [] OTHER -> <<class>>
StripPrefix(class, prefix) ==
    LET parts == RSplitDash(class)
    IN  IF Len(parts) = 2 /\ parts[1] = prefix THEN Some(parts[2]) ELSE NoneValue
ParseNumber(str) ==
    CASE str = "1" -> Some(1)
      [] str = "2" -> Some(2)
      [] str = "3" -> Some(3)
      [] str = "4" -> Some(4)
      [] str = "5" -> Some(5)
      [] str = "10" -> Some(10)
      [] str = "16" -> Some(16)
      [] str = "24" -> Some(24)
      [] str = "100" -> Some(100)
      [] str = "500" -> Some(500)
      [] OTHER -> NoneValue

try_parse_spacing_class(s, class) ==
    LET parts == RSplitDash(class)
    IN  IF Len(parts) # 2 THEN s
        ELSE IF ~ParseNumber(parts[2]).some THEN s
        ELSE LET value == ParseNumber(parts[2]).v * 4
                 prefix == parts[1]
             IN  CASE prefix = "p" ->
                        [s EXCEPT !.padding_top = value, !.padding_right = value,
                                  !.padding_bottom = value, !.padding_left = value]
                   [] prefix = "px" -> [s EXCEPT !.padding_left = value, !.padding_right = value]
                   [] prefix = "py" -> [s EXCEPT !.padding_top = value, !.padding_bottom = value]
                   [] prefix = "pt" -> [s EXCEPT !.padding_top = value]
                   [] prefix = "pr" -> [s EXCEPT !.padding_right = value]
                   [] prefix = "pb" -> [s EXCEPT !.padding_bottom = value]
                   [] prefix = "pl" -> [s EXCEPT !.padding_left = value]
                   [] prefix = "m" ->
                        [s EXCEPT !.margin_top = value, !.margin_right = value,
                                  !.margin_bottom = value, !.margin_left = value]
                   [] prefix = "mx" -> [s EXCEPT !.margin_left = value, !.margin_right = value]
                   [] prefix = "my" -> [s EXCEPT !.margin_top = value, !.margin_bottom = value]
                   [] prefix = "mt" -> [s EXCEPT !.margin_top = value]
                   [] prefix = "mr" -> [s EXCEPT !.margin_right = value]
                   [] prefix = "mb" -> [s EXCEPT !.margin_bottom = value]
                   [] prefix = "ml" -> [s EXCEPT !.margin_left = value]
                   [] OTHER -> s

\* try_parse_color_class: the palette, looked up by the token as a whole.
Palette(name) ==
    CASE name = "red-500" -> Some(Color(937, 267, 267, 1000))
      [] name = "red-700" -> Some(Color(725, 110, 110, 1000))
      [] name = "blue-500" -> Some(Color(231, 510, 965, 1000))
      [] name = "blue-700" -> Some(Color(102, 306, 827, 1000))
      [] name = "green-500" -> Some(Color(133, 773, 369, 1000))
      [] name = "green-700" -> Some(Color(82, 533, 247, 1000))
      [] name = "gray-100" -> Some(Color(953, 957, 961, 1000))
      [] name = "gray-200" -> Some(Color(898, 906, 922, 1000))
      [] name = "gray-300" -> Some(Color(831, 843, 871, 1000))
      [] name = "gray-500" -> Some(Color(424, 447, 502, 1000))
      [] name = "gray-700" -> Some(Color(216, 255, 318, 1000))
      [] name = "gray-900" -> Some(Color(67, 94, 153, 1000))
      [] name = "white" -> Some(WHITE)
      [] name = "black" -> Some(BLACK)
      [] name = "yellow-500" -> Some(Color(918, 788, 153, 1000))
      [] OTHER -> [some |-> FALSE, v |-> BLACK]
\* `class == format!("text-{}", name)` and so on, for the model's tokens.
ColorClass(class) ==
    CASE class = "text-red-500" -> <<"text", "red-500">>
      [] class = "text-white" -> <<"text", "white">>
      [] class = "bg-gray-100" -> <<"bg", "gray-100">>
      [] class = "bg-black" -> <<"bg", "black">>
      [] class = "border-black" -> <<"border", "black">>
      [] class = "border-red-500" -> <<"border", "red-500">>
      [] OTHER -> <<"", "">>
try_parse_color_class(s, class) ==
    LET cc == ColorClass(class)
        c == Palette(cc[2])
    IN  IF ~c.some THEN s
        ELSE CASE cc[1] = "text" -> [s EXCEPT !.color = c.v]
               [] cc[1] = "bg" -> [s EXCEPT !.background_color = c.v]
               [] cc[1] = "border" -> [s EXCEPT !.border_color = c.v]
               [] OTHER -> s

try_parse_gap_class(s, class) ==
    LET rest == StripPrefix(class, "gap")
    IN  IF rest.some /\ ParseNumber(rest.v).some
        THEN [s EXCEPT !.gap = ParseNumber(rest.v).v * 4] ELSE s

try_parse_grid_cols_class(s, class) ==
    LET rest == StripPrefix(class, "grid-cols")
    IN  IF rest.some /\ ParseNumber(rest.v).some
        THEN [s EXCEPT !.grid_template_columns = [i \in 1..ParseNumber(rest.v).v |-> "Fr1"]]
        ELSE s

try_parse_width_class(s, class) ==
    LET rest == StripPrefix(class, "w")
    IN  IF rest.some /\ ParseNumber(rest.v).some
        THEN [s EXCEPT !.width = Px(ParseNumber(rest.v).v * 4)] ELSE s

try_parse_height_class(s, class) ==
    LET rest == StripPrefix(class, "h")
    IN  IF rest.some /\ ParseNumber(rest.v).some
        THEN [s EXCEPT !.height = Px(ParseNumber(rest.v).v * 4)] ELSE s

\* apply_tailwind_class
apply_tailwind_class(s, class) ==
    CASE class = "flex" -> [s EXCEPT !.display = "Flex"]
      [] class = "grid" -> [s EXCEPT !.display = "Grid"]
      [] class = "block" -> [s EXCEPT !.display = "Block"]
      [] class = "inline" -> [s EXCEPT !.display = "Inline"]
      [] class = "inline-block" -> [s EXCEPT !.display = "InlineBlock"]
      [] class = "hidden" -> [s EXCEPT !.display = "None"]
      [] class = "flex-row" -> [s EXCEPT !.flex_direction = "Row"]
      [] class = "flex-col" -> [s EXCEPT !.flex_direction = "Column"]
      [] class = "flex-wrap" -> [s EXCEPT !.flex_wrap = "Wrap"]
      [] class = "flex-nowrap" -> [s EXCEPT !.flex_wrap = "NoWrap"]
      [] class \in {"flex-grow", "grow"} -> [s EXCEPT !.flex_grow = 1]
      [] class \in {"flex-shrink", "shrink"} -> [s EXCEPT !.flex_shrink = 1]
      [] class = "flex-1" -> [s EXCEPT !.flex_grow = 1, !.flex_shrink = 1]
      [] class = "justify-start" -> [s EXCEPT !.justify_content = "Start"]
      [] class = "justify-end" -> [s EXCEPT !.justify_content = "End"]
      [] class = "justify-center" -> [s EXCEPT !.justify_content = "Center"]
      [] class = "justify-between" -> [s EXCEPT !.justify_content = "SpaceBetween"]
      [] class = "justify-around" -> [s EXCEPT !.justify_content = "SpaceAround"]
      [] class = "justify-evenly" -> [s EXCEPT !.justify_content = "SpaceEvenly"]
      [] class = "items-start" -> [s EXCEPT !.align_items = "Start"]
      [] class = "items-end" -> [s EXCEPT !.align_items = "End"]
      [] class = "items-center" -> [s EXCEPT !.align_items = "Center"]
      [] class = "items-stretch" -> [s EXCEPT !.align_items = "Stretch"]
      [] class = "font-bold" -> [s EXCEPT !.font_weight = "Bold"]
      [] class = "font-normal" -> [s EXCEPT !.font_weight = "Normal"]
      [] class = "italic" -> [s EXCEPT !.font_style = "Italic"]
      [] class = "not-italic" -> [s EXCEPT !.font_style = "Normal"]
      [] class = "underline" -> [s EXCEPT !.text_decoration = "Underline"]
      [] class = "no-underline" -> [s EXCEPT !.text_decoration = "None"]
      [] class = "text-left" -> [s EXCEPT !.text_align = "Left"]
      [] class = "text-center" -> [s EXCEPT !.text_align = "Center"]
      [] class = "text-right" -> [s EXCEPT !.text_align = "Right"]
      [] class = "text-xs" -> [s EXCEPT !.font_size = 12]
      [] class = "text-sm" -> [s EXCEPT !.font_size = 14]
      [] class = "text-base" -> [s EXCEPT !.font_size = 16]
      [] class = "text-lg" -> [s EXCEPT !.font_size = 18]
      [] class = "text-xl" -> [s EXCEPT !.font_size = 20]
      [] class = "text-2xl" -> [s EXCEPT !.font_size = 24]
      [] class = "text-3xl" -> [s EXCEPT !.font_size = 30]
      [] class = "text-4xl" -> [s EXCEPT !.font_size = 36]
      [] class = "w-full" -> [s EXCEPT !.width = Percent(100000)]
      [] class = "w-auto" -> [s EXCEPT !.width = Auto]
      [] class = "w-1/2" -> [s EXCEPT !.width = Percent(50000)]
      [] class = "w-1/3" -> [s EXCEPT !.width = Percent(33333)]
      [] class = "w-2/3" -> [s EXCEPT !.width = Percent(66666)]
      [] class = "w-1/4" -> [s EXCEPT !.width = Percent(25000)]
      [] class = "w-3/4" -> [s EXCEPT !.width = Percent(75000)]
      [] class = "break-before" -> [s EXCEPT !.page_break_before = TRUE]
      [] class = "break-after" -> [s EXCEPT !.page_break_after = TRUE]
      [] class = "break-inside-avoid" -> [s EXCEPT !.page_break_inside_avoid = TRUE]
      [] class \in {"page", "page-break"} -> [s EXCEPT !.page_break_after = TRUE]
      [] OTHER ->
           try_parse_height_class(
             try_parse_width_class(
               try_parse_grid_cols_class(
                 try_parse_gap_class(
                   try_parse_color_class(
                     try_parse_spacing_class(s, class), class), class), class), class), class)

\* f32::from_str on the declaration values of the model, in whole units;
\* ParseMilli is the same parse in thousandths (line-height multipliers).
ParseMilli(str) ==
    CASE str = "2" -> Some(2000)
      [] str = "1.5" -> Some(1500)
      [] OTHER -> NoneValue
\* str::trim_end_matches("px"), str::trim_end_matches('%'), str::ends_with('%')
\* and str::split_whitespace on the declaration values of the model.
TrimEndPx(str) ==
    CASE str = "24px" -> "24"
      [] str = "10px" -> "10"
      [] str = "4px" -> "4"
      [] OTHER -> str
EndsWithPercent(str) == str \in {"50%", "x%"}
TrimEndPercent(str) ==
    CASE str = "50%" -> "50"
      [] str = "x%" -> "x"
      [] OTHER -> str
SplitWhitespace(str) ==
    CASE str = "4px 10px" -> <<"4px", "10px">>
      [] str = "4px 10px 24px" -> <<"4px", "10px", "24px">>
      [] str = "" -> <<>>
      [] OTHER -> <<str>>
ParseF32(str) ==
    CASE str = "50" -> Some(50)
      [] OTHER -> ParseNumber(str)

parse_px(str) == ParseF32(TrimEndPx(str))

parse_dimension(str) ==
    IF str = "auto" THEN Auto
    ELSE IF EndsWithPercent(str)
         THEN IF ParseF32(TrimEndPercent(str)).some
              THEN Percent(ParseF32(TrimEndPercent(str)).v * 1000) ELSE Auto
         ELSE IF parse_px(str).some THEN Px(parse_px(str).v) ELSE Auto

\* Color::from_hex on the colour values of the model.
from_hex(hex) ==
    CASE hex \in {"#ff0000", "#f00", "ff0000"} -> Some(Color(1000, 0, 0, 1000))
      [] hex = "#000000" -> Some(BLACK)
      [] hex = "#ffffff" -> Some(WHITE)
      [] OTHER -> [some |-> FALSE, v |-> BLACK]

RECURSIVE PxParts(_)
PxParts(toks) ==
    IF toks = <<>> THEN <<>>
    ELSE IF parse_px(Head(toks)).some
         THEN <<parse_px(Head(toks)).v>> \o PxParts(Tail(toks))
         ELSE PxParts(Tail(toks))
\* apply_shorthand_spacing; `side` is "margin" or "padding".
apply_shorthand_spacing(s, side, val) ==
    LET parts == PxParts(SplitWhitespace(val))
        set(t, r, b, l) ==
            IF side = "margin"
            THEN [s EXCEPT !.margin_top = t, !.margin_right = r,
                           !.margin_bottom = b, !.margin_left = l]
            ELSE [s EXCEPT !.padding_top = t, !.padding_right = r,
                           !.padding_bottom = b, !.padding_left = l]
    IN  CASE Len(parts) = 1 -> set(parts[1], parts[1], parts[1], parts[1])
          [] Len(parts) = 2 -> set(parts[1], parts[2], parts[1], parts[2])
          [] Len(parts) = 4 -> set(parts[1], parts[2], parts[3], parts[4])
          [] OTHER -> s

\* apply_css_property
apply_css_property(s, prop, val) ==
    LET px == parse_px(val)
        hex == from_hex(val)
        always == val = "always" \/ val = "page"
    IN  CASE prop = "display" ->
               [s EXCEPT !.display =
                   CASE val = "flex" -> "Flex"
                     [] val = "grid" -> "Grid"
                     [] val = "block" -> "Block"
                     [] val = "inline" -> "Inline"
                     [] val = "inline-block" -> "InlineBlock"
                     [] val = "none" -> "None"
                     [] OTHER -> s.display]
          [] prop = "flex-direction" ->
               [s EXCEPT !.flex_direction =
                   CASE val = "row" -> "Row"
                     [] val = "column" -> "Column"
                     [] OTHER -> s.flex_direction]
          [] prop = "font-size" -> IF px.some THEN [s EXCEPT !.font_size = px.v] ELSE s
          [] prop = "font-weight" ->
               [s EXCEPT !.font_weight =
                   IF val \in {"bold", "700", "800", "900"} THEN "Bold" ELSE "Normal"]
          [] prop = "font-style" ->
               [s EXCEPT !.font_style = IF val = "italic" THEN "Italic" ELSE "Normal"]
          [] prop = "color" -> IF hex.some THEN [s EXCEPT !.color = hex.v] ELSE s
          [] prop \in {"background-color", "background"} ->
               IF hex.some THEN [s EXCEPT !.background_color = hex.v] ELSE s
          [] prop = "text-align" ->
               [s EXCEPT !.text_align =
                   CASE val = "center" -> "Center"
                     [] val = "right" -> "Right"
                     [] OTHER -> "Left"]
          [] prop = "width" -> [s EXCEPT !.width = parse_dimension(val)]
          [] prop = "height" -> [s EXCEPT !.height = parse_dimension(val)]
          [] prop = "margin" -> apply_shorthand_spacing(s, "margin", val)
          [] prop = "margin-top" -> IF px.some THEN [s EXCEPT !.margin_top = px.v] ELSE s
          [] prop = "margin-right" -> IF px.some THEN [s EXCEPT !.margin_right = px.v] ELSE s
          [] prop = "margin-bottom" -> IF px.some THEN [s EXCEPT !.margin_bottom = px.v] ELSE s
          [] prop = "margin-left" -> IF px.some THEN [s EXCEPT !.margin_left = px.v] ELSE s
          [] prop = "padding" -> apply_shorthand_spacing(s, "padding", val)
          [] prop = "padding-top" -> IF px.some THEN [s EXCEPT !.padding_top = px.v] ELSE s
          [] prop = "padding-right" -> IF px.some THEN [s EXCEPT !.padding_right = px.v] ELSE s
          [] prop = "padding-bottom" -> IF px.some THEN [s EXCEPT !.padding_bottom = px.v] ELSE s
          [] prop = "padding-left" -> IF px.some THEN [s EXCEPT !.padding_left = px.v] ELSE s
          [] prop \in {"border-width", "border"} ->
               IF px.some THEN [s EXCEPT !.border_width = px.v] ELSE s
          [] prop = "border-color" -> IF hex.some THEN [s EXCEPT !.border_color = hex.v] ELSE s
          [] prop = "line-height" ->
               IF ParseMilli(val).some THEN [s EXCEPT !.line_height = ParseMilli(val).v]
               ELSE IF px.some
                    THEN [s EXCEPT !.line_height = (px.v * 1000) \div s.font_size]
                    ELSE s
          [] prop = "gap" -> IF px.some THEN [s EXCEPT !.gap = px.v] ELSE s
          [] prop \in {"break-after", "page-break-after"} ->
               [s EXCEPT !.page_break_after = always]
          [] prop \in {"break-before", "page-break-before"} ->
               [s EXCEPT !.page_break_before = always]
          [] prop = "page-break-inside" ->
               [s EXCEPT !.page_break_inside_avoid = (val = "avoid")]
          [] OTHER -> s

\* apply_inline_style.  The style attribute arrives split on ';' with every
\* piece split on its first ':' and trimmed: <<prop, val>> is a declaration,
\* <<junk>> a piece without a colon and <<>> an empty piece.
RECURSIVE apply_inline_style(_, _)
apply_inline_style(s, decls) ==
    IF decls = <<>> THEN s
    ELSE LET decl == Head(decls)
         IN  IF Len(decl) < 2 THEN apply_inline_style(s, Tail(decls))
             ELSE apply_inline_style(apply_css_property(s, decl[1], decl[2]), Tail(decls))

RECURSIVE ApplyClasses(_, _)
ApplyClasses(s, classes) ==
    IF classes = <<>> THEN s
    ELSE ApplyClasses(apply_tailwind_class(s, Head(classes)), Tail(classes))

\* The fields resolve_style copies from the parent.
InheritFromParent(style, p) ==
    [style EXCEPT !.font_size = p.font_size, !.font_weight = p.font_weight,
                  !.font_family = p.font_family, !.color = p.color,
                  !.text_align = p.text_align, !.line_height = p.line_height,
                  !.font_style = p.font_style]

\* An element as resolve_style reads it: its tag, ElementNode::classes() and
\* the declarations of ElementNode::inline_style().
StyleElement(tag, classes, decls) == [tag |-> tag, classes |-> classes, decls |-> decls]

\* resolve_style; `parent` is Some(style) or NoParent.
NoParent == [some |-> FALSE, v |-> DefaultStyle]
resolve_style_mutant(element, parent) ==
    LET base == base_style_for_tag(element.tag)
        inherited == IF parent.some THEN InheritFromParent(base, parent.v) ELSE base
    IN  ApplyClasses(apply_inline_style(inherited, element.decls), element.classes)
resolve_style(element, parent) ==
    LET base == base_style_for_tag(element.tag)
        inherited == IF parent.some THEN InheritFromParent(base, parent.v) ELSE base
    IN  apply_inline_style(ApplyClasses(inherited, element.classes), element.decls)

\* The style build_styled_tree gives a text node.
text_node_style(parent) ==
    [(IF parent.some THEN parent.v ELSE DefaultStyle) EXCEPT
        !.border_width = 0, !.background_color = Color(0, 0, 0, 0),
        !.margin_top = 0, !.margin_right = 0, !.margin_bottom = 0, !.margin_left = 0,
        !.padding_top = 0, !.padding_right = 0, !.padding_bottom = 0, !.padding_left = 0]

\* str::trim().is_empty()
TrimIsEmpty(text) == \A i \in 1..Len(text) : is_whitespace(text[i])

\* ---- build_styled_tree over one root-to-leaf path of the DOM forest ----
\* dom_path[i + 1] is a child of dom_path[i]; dom_text is a text child of the
\* innermost element (of the forest itself when the path is empty).

MaxDepth == 2

StyleTags ==
    {KnownTag("Div"), KnownTag("H1"), KnownTag("H2"), KnownTag("H3"),
     KnownTag("Th"), KnownTag("Span"), from_str(<<"x">>)}
ClassMenu ==
    {<<"underline">>, <<"font-bold">>, <<"text-xl", "text-sm">>,
     <<"italic", "text-center">>, <<"text-red-500">>, <<"p-4", "flex">>,
     <<"block">>, <<"no-underline", "w-10">>, <<"p-x", "unknown">>}
DeclMenu ==
    {<< <<"font-size", "24px">> >>,
     << <<"color", "#ff0000">>, <<"junk">> >>,
     << <<"font-weight", "heavy">> >>,
     << <<"text-align", "justify">>, <<>> >>,
     << <<"margin", "4px 10px">> >>,
     << <<"line-height", "1.5">> >>}
StyleElements ==
    {StyleElement(t, <<>>, <<>>) : t \in StyleTags}
    \cup {StyleElement(t, c, <<>>) : t \in {KnownTag("Div"), KnownTag("H1")}, c \in ClassMenu}
    \cup {StyleElement(t, <<>>, d) : t \in {KnownTag("Div"), KnownTag("H1")}, d \in DeclMenu}
    \cup {StyleElement(KnownTag("Div"), <<"text-xl">>, << <<"font-size", "24px">> >>),
          StyleElement(KnownTag("Span"), <<"font-normal">>, << <<"font-weight", "bold">> >>),
          StyleElement(from_str(<<"x">>), <<"block">>, <<>>),
          StyleElement(from_str(<<"x">>), <<>>, << <<"display", "flex">> >>),
          StyleElement(KnownTag("H1"), <<>>, << <<"font-weight", "600">> >>),
          StyleElement(KnownTag("Div"), <<"w-10">>, << <<"width", "abc">> >>),
          StyleElement(KnownTag("Div"), <<"break-after">>, << <<"break-after", "auto">> >>)}
NoText == [some |-> FALSE, v |-> <<>>]
TextChildren == {NoText, Some(<<"x">>), Some(<<" ">>)}

StyInitWith(maxDepth) ==
    /\ dom_path \in UNION {[1..n -> StyleElements] : n \in 0..maxDepth}
    /\ dom_text \in TextChildren
    /\ styled = <<>>
    /\ styled_text = NoParent
    /\ sty_pc = "run"
StyInit == StyInitWith(MaxDepth) /\ PagIdle /\ ParIdle /\ WrapIdle /\ PlIdle /\ FfiIdle
    /\ BodyIdle /\ JsonIdle /\ ListIdle

\* parent_style of the next node of the path
ParentStyle == IF styled = <<>> THEN NoParent ELSE Some(styled[Len(styled)])

\* build_styled_tree, DomNode::Element arm
BuildStyledElement ==
    /\ sty_pc = "run"
    /\ Len(styled) < Len(dom_path)
    /\ styled' = Append(styled, resolve_style(dom_path[Len(styled) + 1], ParentStyle))
    /\ UNCHANGED <<dom_path, dom_text, styled_text, sty_pc>>
    /\ UNCHANGED notSty

\* build_styled_tree, DomNode::Text arm
BuildStyledText ==
    /\ sty_pc = "run"
    /\ Len(styled) = Len(dom_path)
    /\ dom_text.some
    /\ styled_text' = IF ~TrimIsEmpty(dom_text.v)
                      THEN Some(text_node_style(ParentStyle)) ELSE styled_text
    /\ sty_pc' = "done"
    /\ UNCHANGED <<dom_path, dom_text, styled>>
    /\ UNCHANGED notSty

\* build_styled_tree returns from an element without children
BuildStyledReturn ==
    /\ sty_pc = "run"
    /\ Len(styled) = Len(dom_path)
    /\ ~dom_text.some
    /\ sty_pc' = "done"
    /\ UNCHANGED <<dom_path, dom_text, styled, styled_text>>
    /\ UNCHANGED notSty

StyNext == BuildStyledElement \/ BuildStyledText \/ BuildStyledReturn
SpecStyle == StyInit /\ [][StyNext]_vars

\* C6 (as claimed): an h1/h2/h3 without classes and without inline style that is
\* nested inside a parent element has font-size 32/24/20 and weight bold.
C6_NestedHeadingKeepsDefaults ==
    \A i \in 2..Len(styled) :
        (dom_path[i].classes = <<>> /\ dom_path[i].decls = <<>>) =>
            /\ dom_path[i].tag.k = "H1" =>
                   (styled[i].font_size = 32 /\ styled[i].font_weight = "Bold")
            /\ dom_path[i].tag.k = "H2" =>
                   (styled[i].font_size = 24 /\ styled[i].font_weight = "Bold")
            /\ dom_path[i].tag.k = "H3" =>
                   (styled[i].font_size = 20 /\ styled[i].font_weight = "Bold")

\* Two styles that differ in every text-group field: a class or declaration
\* sets a field when it leaves the same value in both.
ProbeA == DefaultStyle
ProbeB ==
    [DefaultStyle EXCEPT !.font_size = 99, !.font_weight = "Bold", !.font_family = "Other",
                         !.color = WHITE, !.text_align = "Right", !.line_height = 9000,
                         !.text_decoration = "Underline", !.font_style = "Italic"]
OwnValues(element, field) ==
    {apply_tailwind_class(ProbeA, element.classes[j])[field] :
        j \in {k \in 1..Len(element.classes) :
                 apply_tailwind_class(ProbeA, element.classes[k])[field]
                   = apply_tailwind_class(ProbeB, element.classes[k])[field]}}
    \cup
    {apply_inline_style(ProbeA, <<element.decls[j]>>)[field] :
        j \in {k \in 1..Len(element.decls) :
                 apply_inline_style(ProbeA, <<element.decls[k]>>)[field]
                   = apply_inline_style(ProbeB, <<element.decls[k]>>)[field]}}

\* C7 (as claimed): in every styled element that has a parent, each text-group
\* field is the parent's value or a value set by the element's own classes or
\* inline style, and each other field is what it would be without the parent.
C7_TextGroupInherits ==
    \A i \in 2..Len(styled) :
        /\ \A field \in TextGroup :
              \/ styled[i][field] = styled[i - 1][field]
              \/ styled[i][field] \in OwnValues(dom_path[i], field)
        /\ \A field \in NonTextGroup :
              styled[i][field] = resolve_style(dom_path[i], NoParent)[field]

(***************************************************************************)
(*                         TEXT WRAPPING (fonts.rs)                        *)
(* Strings are sequences of characters.  Widths are in hundredths of a px, *)
(* so that the bold factor 0.55 and the regular factor 0.5 are integers.   *)
(***************************************************************************)

MaxTextLen == 8

WrapAlphabet == {"a", " ", "\n"}
FontSizes == {2}
WrapWidths == {-1, 0, 1, 3}

\* FontManager::measure_text_width for the default FontManager, whose fonts
\* have no bytes: chars * font_size * (0.55 if bold, else 0.5).
measure_text_width(str, font_size, is_bold) ==
    Len(str) * font_size * (IF is_bold THEN 55 ELSE 50)

\* str::split(sep): the pieces between the separators, at least one piece.
RECURSIVE split(_, _)
split(str, sep) ==
    IF \A i \in 1..Len(str) : str[i] # sep THEN <<str>>
    ELSE LET k == CHOOSE i \in 1..Len(str) :
                      str[i] = sep /\ \A j \in 1..(i - 1) : str[j] # sep
         IN  <<SubSeq(str, 1, k - 1)>> \o split(SubSeq(str, k + 1, Len(str)), sep)

\* str::split_whitespace(): the maximal runs of non-whitespace characters.
RECURSIVE split_whitespace(_)
split_whitespace(str) ==
    IF str = <<>> THEN <<>>
    ELSE IF is_whitespace(Head(str)) THEN split_whitespace(Tail(str))
    ELSE LET n == CHOOSE i \in 1..Len(str) :
                      /\ \A j \in 1..i : ~is_whitespace(str[j])
                      /\ (i = Len(str) \/ is_whitespace(str[i + 1]))
         IN  <<SubSeq(str, 1, n)>> \o split_whitespace(SubSeq(str, n + 1, Len(str)))

\* The body of `for word in &words`; acc holds `lines` and `current_line`.
\* wrap_word_mutant is the variant that never starts a new line.
wrap_word_mutant(acc, word, font_size, is_bold, max_width) ==
    [acc EXCEPT !.current_line =
        IF acc.current_line = <<>> THEN word ELSE acc.current_line \o <<" ">> \o word]
\* wrap_word_glued is the variant that joins the words without a space.
wrap_word_glued(acc, word, font_size, is_bold, max_width) ==
    LET candidate == acc.current_line \o word
        w == measure_text_width(candidate, font_size, is_bold)
    IN  IF w > max_width * 100 /\ acc.current_line # <<>>
        THEN [lines |-> Append(acc.lines, acc.current_line), current_line |-> word]
        ELSE [acc EXCEPT !.current_line = candidate]
wrap_word(acc, word, font_size, is_bold, max_width) ==
    LET candidate == IF acc.current_line = <<>> THEN word
                     ELSE acc.current_line \o <<" ">> \o word
        w == measure_text_width(candidate, font_size, is_bold)
    IN  IF w > max_width * 100 /\ acc.current_line # <<>>
        THEN [lines |-> Append(acc.lines, acc.current_line), current_line |-> word]
        ELSE [acc EXCEPT !.current_line = candidate]

RECURSIVE wrap_words(_, _, _, _, _)
wrap_words(acc, words, font_size, is_bold, max_width) ==
    IF words = <<>> THEN acc
    ELSE wrap_words(wrap_word(acc, Head(words), font_size, is_bold, max_width),
                    Tail(words), font_size, is_bold, max_width)

\* The body of `for paragraph in text.split('\n')`.
\* wrap_paragraph_mutant is the variant that pushes nothing for a paragraph
\* without words.
wrap_paragraph_mutant(lines, paragraph, font_size, is_bold, max_width) ==
    LET words == split_whitespace(paragraph)
        acc == wrap_words([lines |-> lines, current_line |-> <<>>], words,
                          font_size, is_bold, max_width)
    IN  IF words = <<>> THEN lines
        ELSE IF acc.current_line # <<>> THEN Append(acc.lines, acc.current_line)
        ELSE acc.lines
wrap_paragraph(lines, paragraph, font_size, is_bold, max_width) ==
    LET words == split_whitespace(paragraph)
        acc == wrap_words([lines |-> lines, current_line |-> <<>>], words,
                          font_size, is_bold, max_width)
    IN  IF words = <<>> THEN Append(lines, <<>>)
        ELSE IF acc.current_line # <<>> THEN Append(acc.lines, acc.current_line)
        ELSE acc.lines

WrapInitWith(maxTextLen) ==
    /\ w_text \in UNION {[1..n -> WrapAlphabet] : n \in 0..maxTextLen}
    /\ w_font_size \in FontSizes
    /\ w_bold \in BOOLEAN
    /\ w_max_width \in WrapWidths
    /\ w_paragraphs = <<>>
    /\ w_lines = <<>>
    /\ w_pc = "start"
WrapInit == WrapInitWith(MaxTextLen) /\ PagIdle /\ ParIdle /\ StyIdle /\ PlIdle /\ FfiIdle
    /\ BodyIdle /\ JsonIdle /\ ListIdle

\* wrap_text: `if max_width <= 0.0 || text.is_empty() { return vec![text] }`
WrapEarlyReturn ==
    /\ w_pc = "start"
    /\ w_max_width <= 0 \/ w_text = <<>>
    /\ w_lines' = <<w_text>>
    /\ w_pc' = "done"
    /\ UNCHANGED <<w_text, w_font_size, w_bold, w_max_width, w_paragraphs>>
    /\ UNCHANGED notWrap

\* wrap_text: entering `for paragraph in text.split('\n')`
WrapSplit ==
    /\ w_pc = "start"
    /\ ~(w_max_width <= 0 \/ w_text = <<>>)
    /\ w_paragraphs' = split(w_text, "\n")
    /\ w_pc' = "loop"
    /\ UNCHANGED <<w_text, w_font_size, w_bold, w_max_width, w_lines>>
    /\ UNCHANGED notWrap

\* wrap_text: one paragraph
WrapParagraph ==
    /\ w_pc = "loop"
    /\ w_paragraphs # <<>>
    /\ w_lines' = wrap_paragraph(w_lines, Head(w_paragraphs), w_font_size, w_bold,
                                 w_max_width)
    /\ w_paragraphs' = Tail(w_paragraphs)
    /\ UNCHANGED <<w_text, w_font_size, w_bold, w_max_width, w_pc>>
    /\ UNCHANGED notWrap

\* wrap_text: `if lines.is_empty() { lines.push(String::new()) }  lines`
WrapReturn ==
    /\ w_pc = "loop"
    /\ w_paragraphs = <<>>
    /\ w_lines' = IF w_lines = <<>> THEN << <<>> >> ELSE w_lines
    /\ w_pc' = "done"
    /\ UNCHANGED <<w_text, w_font_size, w_bold, w_max_width, w_paragraphs>>
    /\ UNCHANGED notWrap

WrapNext == WrapEarlyReturn \/ WrapSplit \/ WrapParagraph \/ WrapReturn
SpecWrap == WrapInit /\ [][WrapNext]_vars

IsSingleWord(line) == line # <<>> /\ \A i \in 1..Len(line) : ~is_whitespace(line[i])
LineWidth(line) == measure_text_width(line, w_font_size, w_bold)

\* C8: when the wrap width is positive, every line wrap_text returns measures
\* at most the wrap width, unless the line is one word that is itself wider
\* than the wrap width.
C8_LinesFitWidth ==
    (w_pc = "done" /\ w_max_width > 0) =>
        \A i \in 1..Len(w_lines) :
            \/ LineWidth(w_lines[i]) <= w_max_width * 100
            \/ IsSingleWord(w_lines[i])

\* A finished wrap with a line of several words and a line that is one
\* over-wide word.
C8_Witness ==
    /\ w_pc = "done" /\ w_max_width > 0
    /\ \E i \in 1..Len(w_lines) :
          ~IsSingleWord(w_lines[i]) /\ w_lines[i] # <<>>
    /\ \E i \in 1..Len(w_lines) :
          IsSingleWord(w_lines[i]) /\ LineWidth(w_lines[i]) > w_max_width * 100

\* The paragraphs of w_text that hold no word, counted by where they start.
ParagraphStarts == {p \in 1..(Len(w_text) + 1) : p = 1 \/ w_text[p - 1] = "\n"}
IsBlankParagraph(p) ==
    \A q \in p..Len(w_text) :
        (\A r \in p..q : w_text[r] # "\n") => is_whitespace(w_text[q])
BlankParagraphs == {p \in ParagraphStarts : IsBlankParagraph(p)}
EmptyLines == {i \in 1..Len(w_lines) : w_lines[i] = <<>>}

\* C9: wrap_text never returns an empty list: [""] for the empty text, [text]
\* when the width is not positive, and otherwise one empty line for each
\* paragraph without a word.
C9_NeverEmpty ==
    w_pc = "done" =>
        /\ w_lines # <<>>
        /\ w_text = <<>> => w_lines = << <<>> >>
        /\ w_max_width <= 0 => w_lines = <<w_text>>
        /\ (w_max_width > 0 /\ w_text # <<>>) =>
              Cardinality(EmptyLines) = Cardinality(BlankParagraphs)

\* A finished wrap of a text with a word and two paragraphs without one.
C9_Witness ==
    /\ w_pc = "done" /\ w_max_width > 0
    /\ Cardinality(BlankParagraphs) >= 2
    /\ Cardinality(EmptyLines) >= 2
    /\ \E i \in 1..Len(w_lines) : w_lines[i] # <<>>

\* The words of a list of lines, line after line.
RECURSIVE WordsOfLines(_)
WordsOfLines(lines) ==
    IF lines = <<>> THEN <<>>
    ELSE split_whitespace(Head(lines)) \o WordsOfLines(Tail(lines))

\* Words joined by single spaces.
RECURSIVE JoinBySpace(_)
JoinBySpace(words) ==
    IF words = <<>> THEN <<>>
    ELSE IF Len(words) = 1 THEN Head(words)
    ELSE Head(words) \o <<" ">> \o JoinBySpace(Tail(words))

\* wrap_text has returned from a call with a positive width.
Wrapped == w_pc = "done" /\ w_max_width > 0

\* C29: for a positive wrap width, the words of the returned lines, read in
\* order, are exactly the words of the text; every line is its words joined
\* by single spaces; and the lines added for one paragraph of the text hold
\* exactly the words of that paragraph, so no word crosses a newline.
C29_WordsPreserved ==
    /\ [](Wrapped =>
            /\ WordsOfLines(w_lines) = split_whitespace(w_text)
            /\ \A i \in 1..Len(w_lines) :
                  w_lines[i] = JoinBySpace(split_whitespace(w_lines[i])))
    /\ [][(w_pc = "loop" /\ w_paragraphs # <<>>) =>
            /\ Len(w_lines') >= Len(w_lines)
            /\ SubSeq(w_lines', 1, Len(w_lines)) = w_lines
            /\ WordsOfLines(SubSeq(w_lines', Len(w_lines) + 1, Len(w_lines')))
                  = split_whitespace(Head(w_paragraphs))
         ]_vars

\* C29 witness: a text of two paragraphs, the first wrapped over two lines
\* and one of its lines holding two words.
C29_Witness ==
    /\ Wrapped
    /\ w_text = <<"a", " ", "a", " ", "a", "a", "\n", "a">>
    /\ w_max_width = 3 /\ ~w_bold
    /\ w_lines = << <<"a", " ", "a">>, <<"a", "a">>, <<"a">> >>

(***************************************************************************)
(*                        PAGINATION (pagination.rs)                       *)
(***************************************************************************)

\* Page geometries handed to paginate: w = page_width, h = page_height,
\* m = page_margin.  content_height = h - 2m.
Geometries == { [w |-> 10, h |-> 6, m |-> 1] }

\* BoxContent (layout.rs): None, or Text with its wrapped lines.
NoContent == [kind |-> "None", lines |-> <<>>]
TextContentOf(n) == [kind |-> "Text", lines |-> [i \in 1..n |-> "l"]]

\* A PositionedBox (layout.rs).  `style` keeps the fields paginate reads.
PositionedBox(x, y, w, h, display, border_width, content, children, bb, ba, avoid) ==
    [x |-> x, y |-> y, width |-> w, height |-> h,
     style |-> [display |-> display, border_width |-> border_width],
     content |-> content, children |-> children,
     page_break_before |-> bb, page_break_after |-> ba,
     page_break_inside_avoid |-> avoid]

\* The menu of top-level elements of a document: text blocks of a given
\* height, tables (display grid) with rows, and plain wrappers (div) with
\* text children; each with its page-break flags.  A nest is a wrapper of
\* two wrappers (a div of divs), the second with two lines of height 1.
TextHeights == {1, 3}
TallHeights == {8}
RowHeights  == { <<2, 2>> }
DivHeights  == { <<1, 1>>, <<3, 3>> }
NestHeights == { <<3, 3>> }
BoxKinds ==
    [shape : {"text"}, hs : {<<h>> : h \in TextHeights},
     bb : BOOLEAN, ba : BOOLEAN, avoid : {FALSE}]
    \cup [shape : {"text"}, hs : {<<h>> : h \in TallHeights},
          bb : {FALSE}, ba : {FALSE}, avoid : {FALSE}]
    \cup [shape : {"table"}, hs : RowHeights,
          bb : BOOLEAN, ba : BOOLEAN, avoid : BOOLEAN]
    \cup [shape : {"div"}, hs : DivHeights,
          bb : {FALSE}, ba : {FALSE}, avoid : {FALSE}]
    \cup [shape : {"nest"}, hs : NestHeights,
          bb : {FALSE}, ba : {FALSE}, avoid : {FALSE}]

RECURSIVE SumSeq(_)
SumSeq(s) == IF s = <<>> THEN 0 ELSE Head(s) + SumSeq(Tail(s))

\* The children of a table or wrapper stacked from document y0 on.
RECURSIVE StackChildren(_, _, _, _, _)
StackChildren(hs, x, w, y0, display) ==
    IF hs = <<>> THEN <<>>
    ELSE <<PositionedBox(x, y0, w, Head(hs), display, 0,
                         IF display = "TableRow" THEN NoContent ELSE TextContentOf(Head(hs)),
                         <<>>, FALSE, FALSE, FALSE)>>
         \o StackChildren(Tail(hs), x, w, y0 + Head(hs), display)

\* compute_layout: the root is a flex column of the content width, so the
\* top-level boxes are stacked from y = 0 with x = page_margin; extract
\* accumulates the offsets into document coordinates.
BoxOfKind(k, g, y) ==
    LET x == g.m
        w == g.w - 2 * g.m
    IN  CASE k.shape = "text" ->
               PositionedBox(x, y, w, k.hs[1], "Block", 0, TextContentOf(k.hs[1]),
                             <<>>, k.bb, k.ba, k.avoid)
          [] k.shape = "table" ->
               PositionedBox(x, y, w, SumSeq(k.hs), "Grid", 1, NoContent,
                             StackChildren(k.hs, x, w, y, "TableRow"),
                             k.bb, k.ba, k.avoid)
          [] k.shape = "nest" ->
               PositionedBox(x, y, w, SumSeq(k.hs) + 2, "Block", 0, NoContent,
                             << PositionedBox(x, y, w, SumSeq(k.hs), "Block", 0, NoContent,
                                              StackChildren(k.hs, x, w, y, "Block"),
                                              FALSE, FALSE, FALSE),
                                PositionedBox(x, y + SumSeq(k.hs), w, 2, "Block", 0, NoContent,
                                              StackChildren(<<1, 1>>, x, w, y + SumSeq(k.hs), "Block"),
                                              FALSE, FALSE, FALSE) >>,
                             k.bb, k.ba, k.avoid)
          [] OTHER ->
               PositionedBox(x, y, w, SumSeq(k.hs), "Block", 0, NoContent,
                             StackChildren(k.hs, x, w, y, "Block"),
                             k.bb, k.ba, k.avoid)

RECURSIVE compute_layout(_, _, _)
compute_layout(ks, g, y) ==
    IF ks = <<>> THEN <<>>
    ELSE LET b == BoxOfKind(Head(ks), g, y)
         IN  <<b>> \o compute_layout(Tail(ks), g, y + b.height)

\* flatten_for_pagination
flatten_for_pagination_mutant(bs, content_height) ==
    LET Expand(pbox) ==
            IF /\ pbox.height > content_height
               /\ pbox.content.kind = "None"
               /\ pbox.children # <<>>
            THEN pbox.children ELSE <<pbox>>
        F[i \in 0..Len(bs)] == IF i = 0 THEN <<>> ELSE F[i - 1] \o Expand(bs[i])
    IN  F[Len(bs)]
RECURSIVE flatten_for_pagination(_, _)
flatten_for_pagination(bs, content_height) ==
    IF bs = <<>> THEN <<>>
    ELSE LET pbox == Head(bs)
         IN  (IF /\ pbox.height > content_height
                 /\ pbox.content.kind = "None"
                 /\ pbox.children # <<>>
              THEN flatten_for_pagination(pbox.children, content_height)
              ELSE <<pbox>>)
             \o flatten_for_pagination(Tail(bs), content_height)

\* LayoutBox::new plus the content set by build_layout_box.
LayoutBox(x, y, w, h, border, text, children) ==
    [x |-> x, y |-> y, width |-> w, height |-> h,
     border |-> border, text |-> text, children |-> children]

\* build_layout_box: page-absolute coordinates, children at
\* child_abs_y = abs_y + (child.y - pbox.y), child_abs_x = child.x.
RECURSIVE build_layout_box(_, _, _)
build_layout_box_mutant(pbox, abs_x, abs_y) ==
    LayoutBox(abs_x, abs_y, pbox.width, pbox.height,
              IF pbox.style.border_width >= 1 THEN pbox.style.border_width ELSE 0,
              IF pbox.content.kind = "Text" THEN pbox.content.lines ELSE <<>>,
              [i \in 1..Len(pbox.children) |->
                  build_layout_box(pbox.children[i], pbox.children[i].x, abs_y)])
build_layout_box(pbox, abs_x, abs_y) ==
    LayoutBox(abs_x, abs_y, pbox.width, pbox.height,
              IF pbox.style.border_width >= 1 THEN pbox.style.border_width ELSE 0,
              IF pbox.content.kind = "Text" THEN pbox.content.lines ELSE <<>>,
              [i \in 1..Len(pbox.children) |->
                  build_layout_box(pbox.children[i], pbox.children[i].x,
                                   abs_y + (pbox.children[i].y - pbox.y))])

positioned_to_layout_box(pbox, page_margin, y_on_page) ==
    build_layout_box(pbox, pbox.x, page_margin + y_on_page)

is_table_like(pbox) == pbox.style.display = "Grid" /\ pbox.children # <<>>

\* The paginator's mutable locals as one record: pages = config.pages,
\* cur = current_page, start = page_start_doc_y.
PagState(pages, cur, start) == [pages |-> pages, cur |-> cur, start |-> start]

\* config.pages.push(current_page); current_page = PageLayout { page_index:
\* config.pages.len(), boxes: [] }; page_start_doc_y = y.
FlushPage(st, y) ==
    PagState(Append(st.pages, st.cur),
             [page_index |-> Len(st.pages) + 1, boxes |-> <<>>], y)

EmitBoxMutant(st, lb) ==
    PagState(st.pages, [st.cur EXCEPT !.boxes = <<lb>> \o @], st.start)
EmitBox(st, lb) ==
    PagState(st.pages, [st.cur EXCEPT !.boxes = Append(@, lb)], st.start)

\* split_table_box, lines 147-154: config.pages.push(mem::replace(current_page,
\* PageLayout { page_index: config.pages.len(), .. })).  The argument is
\* evaluated before the push, so the new page takes the length before it.
FlushPageInSplit(st, y) ==
    PagState(Append(st.pages, st.cur),
             [page_index |-> Len(st.pages), boxes |-> <<>>], y)

\* split_table_box without the page flush: every row on the current page.
split_table_box_mutant(rows, st, content_height, page_margin) ==
    LET F[i \in 0..Len(rows)] ==
            IF i = 0 THEN st
            ELSE EmitBox(F[i - 1],
                         positioned_to_layout_box(rows[i], page_margin,
                                                  Max(rows[i].y - st.start, 0)))
    IN  F[Len(rows)]

\* split_table_box
RECURSIVE split_table_box(_, _, _, _)
split_table_box(rows, st, content_height, page_margin) ==
    IF rows = <<>> THEN st
    ELSE LET child == Head(rows)
             y_on_page == Max(child.y - st.start, 0)
             s1 == IF y_on_page + child.height > content_height /\ st.cur.boxes # <<>>
                   THEN FlushPageInSplit(st, child.y) ELSE st
             y == Max(child.y - s1.start, 0)
         IN  split_table_box(Tail(rows),
                             EmitBox(s1, positioned_to_layout_box(child, page_margin, y)),
                             content_height, page_margin)

\* paginate, lines 68-76: page break before.
BreakBeforeMutant(st, pbox) == st
BreakBefore(st, pbox) ==
    IF pbox.page_break_before /\ st.cur.boxes # <<>>
    THEN FlushPage(st, pbox.y) ELSE st

\* paginate, lines 108-116: page break after.
BreakAfter(st, pbox) ==
    IF pbox.page_break_after THEN FlushPage(st, pbox.y + pbox.height) ELSE st

\* paginate, lines 67-117: one iteration of `for pbox in &flat`.
PaginateBody(st, pbox, content_height, page_margin) ==
    LET s1 == BreakBefore(st, pbox)
        y_on_page == Max(pbox.y - s1.start, 0)
        box_bottom == y_on_page + pbox.height
        overflow == box_bottom > content_height /\ s1.cur.boxes # <<>>
    IN  IF overflow /\ is_table_like(pbox) /\ ~pbox.page_break_inside_avoid
        THEN split_table_box(pbox.children, s1, content_height, page_margin)
        ELSE LET s2 == IF overflow THEN FlushPage(s1, pbox.y) ELSE s1
                 y2 == Max(pbox.y - s2.start, 0)
                 s3 == EmitBox(s2, positioned_to_layout_box(pbox, page_margin, y2))
             IN  BreakAfter(s3, pbox)

\* paginate, lines 119-128: the post-pass.
PostPassMutant(pages, cur) ==
    Append(pages, cur)
PostPass(pages, cur) ==
    LET p1 == IF cur.boxes # <<>> THEN Append(pages, cur) ELSE pages
    IN  IF p1 = <<>> THEN <<[page_index |-> 0, boxes |-> <<>>]>> ELSE p1

ContentHeight == geom.h - 2 * geom.m

\* paginate, lines 45-65: the state before the loop.
PagInit ==
    /\ geom \in Geometries
    /\ \E n \in 0..MaxBoxes : \E ks \in [1..n -> BoxKinds] :
          boxes = compute_layout(ks, geom, 0)
    /\ flat = flatten_for_pagination(boxes, geom.h - 2 * geom.m)
    /\ box_i = 1
    /\ config = [title |-> "rpdf output", page_width_pt |-> geom.w,
                 page_height_pt |-> geom.h, pages |-> <<>>]
    /\ current_page = [page_index |-> 0, boxes |-> <<>>]
    /\ page_start_doc_y = 0
    /\ pag_pc = "loop"
    /\ ParIdle /\ StyIdle /\ WrapIdle /\ PlIdle /\ FfiIdle /\ BodyIdle /\ JsonIdle /\ ListIdle

PaginateBox ==
    /\ pag_pc = "loop"
    /\ box_i <= Len(flat)
    /\ LET st == PaginateBody(PagState(config.pages, current_page, page_start_doc_y),
                              flat[box_i], ContentHeight, geom.m)
       IN  /\ config' = [config EXCEPT !.pages = st.pages]
           /\ current_page' = st.cur
           /\ page_start_doc_y' = st.start
    /\ box_i' = box_i + 1
    /\ UNCHANGED <<boxes, geom, flat, pag_pc>>
    /\ UNCHANGED notPag

PaginateFinish ==
    /\ pag_pc = "loop"
    /\ box_i > Len(flat)
    /\ config' = [config EXCEPT !.pages = PostPass(config.pages, current_page)]
    /\ pag_pc' = "done"
    /\ UNCHANGED <<boxes, geom, flat, box_i, current_page, page_start_doc_y>>
    /\ UNCHANGED notPag

PagNext == PaginateBox \/ PaginateFinish

SpecPaginate == PagInit /\ [][PagNext]_vars

(***************************************************************************)
(* Claims about pagination.                                                *)
(***************************************************************************)

\* The page holding the box emitted last: the current page, or, when the
\* loop has just flushed, the page pushed last.
LastContentPage ==
    IF current_page.boxes # <<>> THEN current_page
    ELSE config.pages[Len(config.pages)]

RECURSIVE BoxWithinPage(_, _, _)
BoxWithinPage(lb, pw, ph) ==
    /\ 0 <= lb.x /\ lb.x <= lb.x + lb.width /\ lb.x + lb.width <= pw + 1
    /\ 0 <= lb.y /\ lb.y <= lb.y + lb.height /\ lb.y + lb.height <= ph + 1
    /\ \A i \in 1..Len(lb.children) : BoxWithinPage(lb.children[i], pw, ph)

\* C2 (as claimed): every Layout Box, top-level or nested, of every page of
\* the Layout Config returned by paginate lies within the page rectangle
\* (tolerance 1 pt).
C2_BoxesWithinPage ==
    pag_pc = "done" =>
        \A p \in 1..Len(config.pages) :
            \A b \in 1..Len(config.pages[p].boxes) :
                BoxWithinPage(config.pages[p].boxes[b],
                              config.page_width_pt, config.page_height_pt)

\* C3: paginate returns at least one page; a page without boxes is returned
\* only as the single page of an input without boxes; in particular a
\* break-after on the last box leaves no trailing empty page.  No page the
\* loop has pushed is empty either.
C3_NoEmptyPage ==
    /\ \A p \in 1..Len(config.pages) :
          config.pages[p].boxes = <<>> => (pag_pc = "done" /\ flat = <<>>)
    /\ pag_pc = "done" =>
          /\ Len(config.pages) >= 1
          /\ flat = <<>> => config.pages = <<[page_index |-> 0, boxes |-> <<>>]>>

\* C3 witness: the last box had break-after, pages were flushed, paginate
\* has returned.
C3_Witness ==
    /\ pag_pc = "done"
    /\ Len(flat) >= 2
    /\ flat[Len(flat)].page_break_after
    /\ Len(config.pages) >= 2

\* Pages that hold at least one box, counting the page being filled.
NumContentPages ==
    Len(config.pages) + (IF current_page.boxes # <<>> THEN 1 ELSE 0)

\* C4: once the loop has placed a box B with break-before that is not the
\* first box of the flattened sequence, B is the first (and so far only) box
\* of the last page, and that page is not the first page: every earlier box
\* lies on an earlier page.
C4_BreakBeforeStartsPage ==
    (pag_pc = "loop" /\ box_i > 2 /\ flat[box_i - 1].page_break_before) =>
        LET B == flat[box_i - 1]
            P == LastContentPage
        IN  /\ P.boxes = <<build_layout_box(B, B.x, geom.m)>>
            /\ NumContentPages >= 2

\* C4 witness: a break-before box was placed after earlier content.
C4_Witness ==
    /\ pag_pc = "loop" /\ box_i > 2
    /\ flat[box_i - 1].page_break_before
    /\ ~flat[box_i - 1].page_break_after
    /\ flat[box_i - 2].height = 1
    /\ current_page.boxes # <<>>
    /\ Len(config.pages) >= 1

\* C5 (as claimed): once the loop has placed a box B with break-after, by
\* whichever branch, the page has been flushed: the current page is empty,
\* so every later box goes to a later page.
C5_BreakAfterFlushes ==
    (pag_pc = "loop" /\ box_i > 1 /\ flat[box_i - 1].page_break_after) =>
        current_page.boxes = <<>>

\* Every page built so far: the pushed pages, then the page being filled.
PagesSoFar == config.pages \o <<current_page>>

\* The bottom of a top-level Layout Box on its page, measured from the top of
\* the content area: y_on_page + height.
BottomOnPage(lb) == (lb.y - geom.m) + lb.height

\* C22 (as claimed): no top-level box exceeds the content height on its
\* page: for every top-level Layout Box emitted so far, y_on_page + height
\* is at most content_height.
C22_TopLevelWithinContentHeight ==
    \A p \in 1..Len(PagesSoFar) :
        \A b \in 1..Len(PagesSoFar[p].boxes) :
            BottomOnPage(PagesSoFar[p].boxes[b]) <= ContentHeight

\* A position in the box forest: the child indices from a top-level box down.
BoxPaths == UNION {[1..d -> 1..MaxBoxes] : d \in 1..3}

\* The boxes at a level reached by following path p for its first n indices
\* (the empty sequence when the path leaves the forest).
RECURSIVE LevelAt(_, _, _)
LevelAt(bs, p, n) ==
    IF n = 0 THEN bs
    ELSE LET up == LevelAt(bs, p, n - 1)
         IN  IF p[n] \in 1..Len(up) THEN up[p[n]].children ELSE <<>>

InForest(bs, p) == p[Len(p)] \in 1..Len(LevelAt(bs, p, Len(p) - 1))
BoxAt(bs, p) == LevelAt(bs, p, Len(p) - 1)[p[Len(p)]]

\* A pure container taller than a page: what the flattening replaces.
Replaced(b) ==
    b.content.kind = "None" /\ b.children # <<>> /\ b.height > ContentHeight

\* The boxes that stay: every ancestor is replaced, the box itself is not.
Kept(bs, p) ==
    /\ InForest(bs, p)
    /\ \A n \in 1..(Len(p) - 1) : Replaced(BoxAt(bs, SubSeq(p, 1, n)))
    /\ ~Replaced(BoxAt(bs, p))

\* Document order of two positions neither of which is above the other.
DocBefore(p, q) ==
    \E n \in 1..Len(p) :
        /\ n <= Len(q) /\ p[n] < q[n]
        /\ \A j \in 1..(n - 1) : p[j] = q[j]

\* C23: when flatten_for_pagination has returned, before the loop starts,
\* `flat` is, in document order, exactly the boxes that remain when
\* every pure container taller than content_height is replaced, recursively,
\* by its children; each of them is the input box itself, children intact,
\* and none of them is such a container.
C23_FlattenIsFrontier ==
    (pag_pc = "loop" /\ box_i = 1) =>
        LET K == {p \in BoxPaths : Kept(boxes, p)}
        IN  /\ Len(flat) = Cardinality(K)
            /\ \A p \in K :
                  flat[1 + Cardinality({q \in K : DocBefore(q, p)})] = BoxAt(boxes, p)
            /\ \A i \in 1..Len(flat) : ~Replaced(flat[i])

\* C23 witness: a wrapper of wrappers was replaced down to its grandchildren,
\* next to a wrapper that was kept whole.
C23_Witness ==
    /\ pag_pc = "loop" /\ box_i = 1
    /\ \E i \in 1..Len(boxes) :
          /\ Replaced(boxes[i])
          /\ \E j \in 1..Len(boxes[i].children) : Replaced(boxes[i].children[j])
    /\ \E i \in 1..Len(flat) : flat[i].children # <<>> /\ flat[i].content.kind = "None"
    /\ Len(flat) > Len(boxes) + 2

\* The loop is about to hand flat[box_i] to split_table_box: a table-like
\* box without break-inside-avoid that overflows a page that has content.
\* (A break-before box never gets here: its page has just been emptied.)
TableSplits ==
    /\ pag_pc = "loop" /\ box_i <= Len(flat)
    /\ is_table_like(flat[box_i])
    /\ ~flat[box_i].page_break_inside_avoid
    /\ ~flat[box_i].page_break_before
    /\ current_page.boxes # <<>>
    /\ Max(flat[box_i].y - page_start_doc_y, 0) + flat[box_i].height > ContentHeight

\* The places (page, position on the page) of `pages` that come after the
\* first c boxes of page number np, and the k-th of them in reading order.
SlotsAfter(pages, np, c) ==
    UNION { { <<q, b>> : b \in (IF q = np THEN c + 1 ELSE 1)..Len(pages[q].boxes) } :
            q \in np..Len(pages) }
SlotBefore(s, t) == s[1] < t[1] \/ (s[1] = t[1] /\ s[2] < t[2])
SlotNo(S, k) ==
    CHOOSE s \in S : Cardinality({t \in S : SlotBefore(t, s)}) = k - 1

\* C24: a step that splits table B leaves the earlier boxes where they were
\* and emits the rows of B, each once and in order, after them.  A row that
\* would end below content_height on the page of the row before it (the
\* current page, for the first row) is the first box of a new page, at
\* y = page_margin, and page_start_doc_y becomes its document y; every other
\* row follows on the same page at page_margin + (row.y - page_start_doc_y).
C24_TableRowsSplit ==
    [][TableSplits =>
        LET rows  == flat[box_i].children
            np    == Len(config.pages) + 1
            c     == Len(current_page.boxes)
            after == PagesSoFar'
            S     == SlotsAfter(after, np, c)
            \* page_start_doc_y while row k is placed
            start[k \in 0..Len(rows)] ==
                IF k = 0 \/ SlotNo(S, k)[1] = np THEN page_start_doc_y
                ELSE rows[CHOOSE j \in 1..k : SlotNo(S, j) = <<SlotNo(S, k)[1], 1>>].y
        IN  /\ Cardinality(S) = Len(rows)
            /\ \A q \in 1..(np - 1) : after[q].boxes = config.pages[q].boxes
            /\ SubSeq(after[np].boxes, 1, c) = current_page.boxes
            /\ \A k \in 1..Len(rows) :
                  LET s == SlotNo(S, k)
                  IN  /\ (s[2] = 1) <=>
                             ((rows[k].y - start[k - 1]) + rows[k].height > ContentHeight)
                      /\ s[2] = 1 => start[k] = rows[k].y
                      /\ after[s[1]].boxes[s[2]] =
                             build_layout_box(rows[k], rows[k].x,
                                              geom.m + (rows[k].y - start[k]))
            /\ page_start_doc_y' = start[Len(rows)]
      ]_vars

\* C24 witness: a table was split, its first row stayed below the earlier
\* content and its second row opened a new page.
C24_Witness ==
    /\ pag_pc = "loop" /\ box_i = 3
    /\ flat[1].height = 1 /\ ~flat[1].page_break_after
    /\ is_table_like(flat[2]) /\ ~flat[2].page_break_inside_avoid
    /\ ~flat[2].page_break_before
    /\ Len(config.pages) = 1 /\ Len(config.pages[1].boxes) = 2
    /\ Len(current_page.boxes) = 1
    /\ current_page.boxes[1].y = geom.m
    /\ page_start_doc_y = flat[2].children[2].y

\* The pages of the Layout Config as built so far (as returned, once
\* paginate is done), and their top-level boxes in reading order.
EmittedPages == IF pag_pc = "done" THEN config.pages ELSE PagesSoFar
RECURSIVE BoxesOf(_)
BoxesOf(pages) ==
    IF pages = <<>> THEN <<>> ELSE Head(pages).boxes \o BoxesOf(Tail(pages))
Emitted == BoxesOf(EmittedPages)

\* How many boxes of `flat` the loop has been through.
Handled == IF pag_pc = "done" THEN Len(flat) ELSE box_i - 1

\* The Positioned Boxes that become top-level Layout Boxes when the tables
\* marked in `by_rows` are emitted row by row: the first n boxes of `flat` in
\* document order, a split table standing for its rows.
RECURSIVE Units(_, _)
Units(by_rows, n) ==
    IF n = 0 THEN <<>>
    ELSE Units(by_rows, n - 1) \o (IF by_rows[n] THEN flat[n].children ELSE <<flat[n]>>)

\* The ways the tables handled so far may have been emitted.
Splits ==
    {by_rows \in [1..Handled -> BOOLEAN] :
        \A i \in 1..Handled :
            by_rows[i] => (is_table_like(flat[i]) /\ ~flat[i].page_break_inside_avoid)}

\* Layout Box lb has the shape of Positioned Box pb: as many children, in
\* the same order, each with its x copied and its y moved with the parent.
RECURSIVE Mirrors(_, _)
Mirrors(lb, pb) ==
    /\ Len(lb.children) = Len(pb.children)
    /\ \A i \in 1..Len(pb.children) :
          /\ lb.children[i].x = pb.children[i].x
          /\ lb.children[i].y = lb.y + (pb.children[i].y - pb.y)
          /\ Mirrors(lb.children[i], pb.children[i])

\* C26: every emitted Layout Box keeps the subtree shape of the Positioned
\* Box it was built from; at every level a child's page-absolute y is the
\* parent's plus (child.y - parent.y) and its x is copied unchanged.
C26_SubtreePreserved ==
    pag_pc # "idle" =>
        \E by_rows \in Splits :
            LET U == Units(by_rows, Handled)
            IN  /\ Len(Emitted) = Len(U)
                /\ \A k \in 1..Len(U) : Mirrors(Emitted[k], U[k])

\* C26 witness: a wrapper with two children was emitted on a second page;
\* its second child lies below its first on that page.
C26_Witness ==
    /\ pag_pc = "done" /\ Len(config.pages) = 2
    /\ Len(config.pages[2].boxes) = 1
    /\ Len(config.pages[2].boxes[1].children) = 2
    /\ config.pages[2].boxes[1].y = geom.m
    /\ config.pages[2].boxes[1].children[2].y = geom.m + 1

\* C27 (as claimed): in the Layout Config paginate returns, the i-th page
\* (0-based) has page_index i, whichever flushes produced the pages.
C27_PageIndexIsPosition ==
    pag_pc = "done" =>
        \A p \in 1..Len(config.pages) : config.pages[p].page_index = p - 1

\* Layout Box lb is the top-level box made of Positioned Box pb.
MadeOf(lb, pb) ==
    /\ lb.x = pb.x /\ lb.width = pb.width /\ lb.height = pb.height
    /\ lb.text = (IF pb.content.kind = "Text" THEN pb.content.lines ELSE <<>>)
    /\ Len(lb.children) = Len(pb.children)

\* C28: the top-level Layout Boxes, read page by page, are the boxes of
\* `flat` handled so far, each once and in document order, a split table
\* being replaced by its rows in its place.
C28_ContentPreserved ==
    pag_pc # "idle" =>
        \E by_rows \in Splits :
            LET U == Units(by_rows, Handled)
            IN  /\ Len(Emitted) = Len(U)
                /\ \A k \in 1..Len(U) : MadeOf(Emitted[k], U[k])

\* C28 witness: three boxes of different heights, one of them a split
\* table, came out on three pages.
C28_Witness ==
    /\ pag_pc = "done" /\ Len(flat) = 3
    /\ flat[1].height = 1 /\ is_table_like(flat[2]) /\ flat[3].height = 3
    /\ Len(config.pages) = 3
    /\ Len(Emitted) = 4

(***************************************************************************)
(*                     THE ORCHESTRATOR (pipeline.rs)                      *)
(* parse_html, body_children, build_styled_tree and compute_layout turn    *)
(* `html` into top-level boxes; a document is given here by the kinds of   *)
(* its top-level elements, which compute_layout lays out.  render_pdf is   *)
(* the boundary to the PDF writer: a Result that is Ok or Err.             *)
(***************************************************************************)

PipelineConfig(title, page_width, page_height, page_margin, orientation) ==
    [title |-> title, page_margin |-> page_margin, page_width |-> page_width,
     page_height |-> page_height, orientation |-> orientation]

\* PipelineConfig::effective_width / effective_height
effective_width_mutant(cfg) == cfg.page_width
effective_width(cfg) ==
    IF cfg.orientation = "Portrait" THEN cfg.page_width ELSE cfg.page_height
effective_height(cfg) ==
    IF cfg.orientation = "Portrait" THEN cfg.page_height ELSE cfg.page_width

\* paginate as a function: the loop over `flat`, then the post-pass.
RECURSIVE PaginateLoop(_, _, _, _)
PaginateLoop(st, fl, content_height, page_margin) ==
    IF fl = <<>> THEN st
    ELSE PaginateLoop(PaginateBody(st, Head(fl), content_height, page_margin),
                      Tail(fl), content_height, page_margin)
paginate(bs, page_width, page_height, page_margin) ==
    LET content_height == page_height - 2 * page_margin
        st == PaginateLoop(PagState(<<>>, [page_index |-> 0, boxes |-> <<>>], 0),
                           flatten_for_pagination(bs, content_height),
                           content_height, page_margin)
    IN  [title |-> "rpdf output", page_width_pt |-> page_width,
         page_height_pt |-> page_height, pages |-> PostPass(st.pages, st.cur)]

\* Steps 1-4 of both entry points, up to and including paginate.
LayoutOf(doc, cfg) ==
    LET eff_w == effective_width(cfg)
        eff_h == effective_height(cfg)
        bs == compute_layout(doc, [w |-> eff_w, h |-> eff_h, m |-> cfg.page_margin], 0)
    IN  paginate(bs, eff_w, eff_h, cfg.page_margin)

\* generate_pdf: Ok((pdf_bytes, layout_config)) or the renderer's Err.
generate_pdf(doc, cfg, render) ==
    LET layout_config == [LayoutOf(doc, cfg) EXCEPT !.title = cfg.title]
    IN  IF render = "Ok" THEN [ok |-> TRUE, layout |-> <<layout_config>>]
        ELSE [ok |-> FALSE, layout |-> <<>>]

\* compute_layout_config
compute_layout_config(doc, cfg) == LayoutOf(doc, cfg)

PipelineTitles == {"rpdf output", "Report"}
PageSizes == { <<10, 6>>, <<6, 10>> }
PageMargins == {1}
PipelineConfigs ==
    {PipelineConfig(t, wh[1], wh[2], m, o) :
        t \in PipelineTitles, wh \in PageSizes, m \in PageMargins,
        o \in {"Portrait", "Landscape"}}
PipelineKinds ==
    {k \in BoxKinds :
        \/ k.shape = "text" /\ ~k.bb /\ (k.hs = <<1>> \/ (k.hs = <<3>> /\ k.ba))
        \/ k.shape = "text" /\ k.hs = <<8>>
        \/ k.shape = "table" /\ ~k.bb /\ ~k.ba /\ ~k.avoid}

PlInitWith(maxBoxes) ==
    /\ pl_config \in PipelineConfigs
    /\ pl_doc \in UNION {[1..n -> PipelineKinds] : n \in 0..maxBoxes}
    /\ pl_render \in {"Ok", "Err"}
    /\ pl_generate = <<>>
    /\ pl_compute = <<>>
    /\ pl_pc = "run"
PlInit == PlInitWith(MaxBoxes) /\ PagIdle /\ ParIdle /\ StyIdle /\ WrapIdle /\ FfiIdle
    /\ BodyIdle /\ JsonIdle /\ ListIdle

CallGenerate ==
    /\ pl_pc = "run"
    /\ pl_generate = <<>>
    /\ pl_generate' = <<generate_pdf(pl_doc, pl_config, pl_render)>>
    /\ UNCHANGED <<pl_config, pl_doc, pl_render, pl_compute, pl_pc>>
    /\ UNCHANGED notPl

CallComputeLayout ==
    /\ pl_pc = "run"
    /\ pl_compute = <<>>
    /\ pl_compute' = <<compute_layout_config(pl_doc, pl_config)>>
    /\ UNCHANGED <<pl_config, pl_doc, pl_render, pl_generate, pl_pc>>
    /\ UNCHANGED notPl

PlNext == CallGenerate \/ CallComputeLayout
SpecPipeline == PlInit /\ [][PlNext]_vars

\* C11 (as claimed): when rendering succeeds, the Layout Config generate
\* returns equals the one compute-layout-only returns for the same html and
\* config in every field: title, page width, page height and pages.
C11_GenerateEqualsComputeLayout ==
    (pl_generate # <<>> /\ pl_compute # <<>> /\ pl_generate[1].ok) =>
        LET g == pl_generate[1].layout[1]
            c == pl_compute[1]
        IN  /\ g.title = c.title
            /\ g.page_width_pt = c.page_width_pt
            /\ g.page_height_pt = c.page_height_pt
            /\ g.pages = c.pages

\* C15: the Layout Config's page size is the config's in portrait and the
\* config's swapped in landscape, and the top-level boxes are as wide as the
\* content width of that same effective width.
RECURSIVE TopBoxes(_)
TopBoxes(pages) ==
    IF pages = <<>> THEN <<>> ELSE Head(pages).boxes \o TopBoxes(Tail(pages))
C17_UnknownIsDisplayNone ==
    \A i \in 1..Len(styled) : dom_path[i].tag.k = "Unknown" => styled[i].display = "None"

\* The declarations of the model with an unsupported property or a value the
\* property does not recognise, and the class tokens that match nothing.
UnrecognisedDecl(d) ==
    \/ Len(d) < 2
    \/ d \in {<<"text-align", "justify">>, <<"font-weight", "600">>, <<"font-weight", "heavy">>,
              <<"width", "abc">>, <<"break-after", "auto">>}
UnrecognisedClass(c) == c \in {"unknown", "p-x"}
RecognisedOnly(e) ==
    StyleElement(e.tag, SelectSeq(e.classes, LAMBDA c : ~UnrecognisedClass(c)),
                 SelectSeq(e.decls, LAMBDA d : ~UnrecognisedDecl(d)))

\* C20: an inline declaration with an unsupported property or an
\* unrecognised value, and a class token that matches nothing, leave every
\* style field unchanged: the element resolves to the style it has without
\* them.
C20_UnrecognisedLeavesStyleUnchanged ==
    \A i \in 1..Len(styled) :
        styled[i] = resolve_style(RecognisedOnly(dom_path[i]),
                                  IF i = 1 THEN NoParent ELSE Some(styled[i - 1]))

\* What the class tokens and the declarations of the model set, by the
\* utility-class table and by CSS: the fields and their values.
SetsNothing == <<>>
ClassSets(c) ==
    CASE c = "underline" -> [text_decoration |-> "Underline"]
      [] c = "no-underline" -> [text_decoration |-> "None"]
      [] c = "font-bold" -> [font_weight |-> "Bold"]
      [] c = "font-normal" -> [font_weight |-> "Normal"]
      [] c = "text-xl" -> [font_size |-> 20]
      [] c = "text-sm" -> [font_size |-> 14]
      [] c = "italic" -> [font_style |-> "Italic"]
      [] c = "text-center" -> [text_align |-> "Center"]
      [] c = "text-red-500" -> [color |-> Color(937, 267, 267, 1000)]
      [] c = "p-4" -> [padding_top |-> 16, padding_right |-> 16,
                       padding_bottom |-> 16, padding_left |-> 16]
      [] c = "flex" -> [display |-> "Flex"]
      [] c = "block" -> [display |-> "Block"]
      [] c = "w-10" -> [width |-> Px(40)]
      [] c = "break-after" -> [page_break_after |-> TRUE]
      [] OTHER -> SetsNothing
DeclSets(d) ==
    CASE d = <<"font-size", "24px">> -> [font_size |-> 24]
      [] d = <<"color", "#ff0000">> -> [color |-> Color(1000, 0, 0, 1000)]
      [] d = <<"margin", "4px 10px">> -> [margin_top |-> 4, margin_right |-> 10,
                                          margin_bottom |-> 4, margin_left |-> 10]
      [] d = <<"line-height", "1.5">> -> [line_height |-> 1500]
      [] d = <<"font-weight", "bold">> -> [font_weight |-> "Bold"]
      [] d = <<"display", "flex">> -> [display |-> "Flex"]
      [] OTHER -> SetsNothing
\* The class step and then the inline step of an element, token by token.
Setters(e) ==
    [k \in 1..Len(e.classes) |-> ClassSets(e.classes[k])]
    \o [k \in 1..Len(e.decls) |-> DeclSets(e.decls[k])]
AllRecognised(e) ==
    \A k \in 1..Len(e.decls) : Len(e.decls[k]) < 2 \/ ~UnrecognisedDecl(e.decls[k])

\* C21: the steps of style resolution are applied in a fixed order and the
\* later one wins: a field has the value of the last class token or inline
\* declaration that sets it (declarations after classes), whatever the tag
\* default and the inherited value are.
C21_LaterStepWins ==
    \A i \in 1..Len(styled) :
        AllRecognised(dom_path[i]) =>
            LET st == Setters(dom_path[i])
            IN  \A k \in 1..Len(st) : \A f \in DOMAIN st[k] :
                    (\A j \in (k + 1)..Len(st) : f \notin DOMAIN st[j])
                        => styled[i][f] = st[k][f]
\* A heading inside a styled parent with two size classes, and an element
\* whose inline font-size overrides its size class, have been resolved.
C21_Witness ==
    /\ Len(styled) = 2
    /\ dom_path[1] = StyleElement(KnownTag("H1"), <<"text-xl", "text-sm">>, <<>>)
    /\ dom_path[2] = StyleElement(KnownTag("Div"), <<"text-xl">>, << <<"font-size", "24px">> >>)
    /\ styled[1].font_size = 14
    /\ styled[2].font_size = 24

\* The nodes of a forest, at every depth.
RECURSIVE NodesOf(_)
NodesOf(nodes) ==
    IF nodes = <<>> THEN {}
    ELSE {Head(nodes)} \cup NodesOf(Head(nodes).children) \cup NodesOf(Tail(nodes))
\* Every node parsed so far: returned ones, and elements under construction.
ParsedNodes ==
    NodesOf(forest) \cup UNION {NodesOf(stack[i].nodes) \cup {stack[i].elem} : i \in 1..Len(stack)}
\* The step of parse_element that finds `/>` after the attributes.
SlashGtStep == par_pc = "attrs" /\ AttrsLoopExits /\ starts_with(AttrsAt, <<"/", ">">>)
LastOf(nodes) == nodes[Len(nodes)]

\* C16: every img element has no children, whether written `<img ...>` or
\* `<img .../>`, and the element of any tag written `<tag .../>` is returned
\* to its parent without children.
C16_SelfClosingHasNoChildren ==
    /\ [](\A n \in ParsedNodes :
            (n.type = "Element" /\ n.tag = KnownTag("Img")) => n.children = <<>>)
    /\ [][SlashGtStep =>
            /\ Len(stack') = Len(stack) - 1
            /\ LastOf(stack'[Len(stack')].nodes).tag = Top.elem.tag
            /\ LastOf(stack'[Len(stack')].nodes).children = <<>>
            /\ pos' = AttrsAt + 2]_vars
\* `<img>a` is parsed: the text after the img is its sibling.
C16_Witness ==
    /\ par_pc = "done"
    /\ input = <<"<", "i", "m", "g", ">", "a">>
    /\ Len(forest) = 2
    /\ forest[1].tag = KnownTag("Img") /\ forest[1].children = <<>>
    /\ forest[2] = TextNode(<<"a">>)

\* The loop of parse_html's own parse_nodes stands before a closing tag:
\* no element is open.
UnmatchedClose ==
    /\ par_pc = "nodes" /\ Len(stack) = 1
    /\ starts_with(NodesAt, <<"<", "/">>)

\* C30: when the top-level loop meets `</`, parse_html returns at once: the
\* forest is the list of nodes pushed so far, the cursor stays before the
\* `</` and the rest of the input is never read.  Wherever parse_html has
\* returned, it stopped at the end of the input or before such a `</`.
C30_StopsAtUnmatchedClose ==
    /\ [](par_pc = "done" =>
            /\ eof(pos) \/ starts_with(pos, <<"<", "/">>)
            /\ forest = stack[1].nodes)
    /\ [][UnmatchedClose =>
            /\ par_pc' = "done"
            /\ forest' = stack[1].nodes
            /\ pos' = NodesAt /\ ~eof(pos')
         ]_vars

\* C30 witness: a text, then a closing tag that closes nothing, then more
\* text: the forest is the first text alone.
C30_Witness ==
    /\ par_pc = "done"
    /\ input = <<"a", "<", "/", "a">>
    /\ forest = <<TextNode(<<"a">>)>>
    /\ pos = 1

(***************************************************************************)
(*                        body_children (dom.rs)                           *)
(***************************************************************************)

\* body_children: `for node in nodes` from the i-th node on; the forest
\* itself when the loop ends.
RECURSIVE body_children_from(_, _)
body_children_from(nodes, i) ==
    IF i > Len(nodes) THEN nodes
    ELSE LET e == nodes[i]
         IN  IF e.type = "Element" /\ e.tag = KnownTag("Body") THEN e.children
             ELSE IF /\ e.type = "Element" /\ e.tag = KnownTag("Html")
                     /\ body_children_from(e.children, 1) # <<>>
                  THEN body_children_from(e.children, 1)
                  ELSE body_children_from(nodes, i + 1)
body_children(nodes) == body_children_from(nodes, 1)

\* The nodes the forests are made of.
Leaf(tag) == ElementNode(KnownTag(tag), {}, <<>>)
BodyNodes ==
    LET a == TextNode(<<"a">>)
        p == ElementNode(KnownTag("P"), {}, <<a>>)
        empty_body == Leaf("Body")
        body == ElementNode(KnownTag("Body"), {}, <<p>>)
    IN  {a, p, empty_body, body, Leaf("Html"),
         ElementNode(KnownTag("Html"), {}, <<empty_body>>),
         ElementNode(KnownTag("Html"), {}, <<body>>),
         ElementNode(KnownTag("Html"), {}, <<Leaf("Head"), body>>),
         ElementNode(KnownTag("Html"), {}, <<Leaf("Head")>>),
         ElementNode(KnownTag("Html"), {}, <<p>>)}
MaxNodes == 2

BodyInitWith(maxNodes) ==
    /\ bc_nodes \in UNION {[1..n -> BodyNodes] : n \in 0..maxNodes}
    /\ bc_result = <<>>
    /\ bc_pc = "run"
BodyInit ==
    BodyInitWith(MaxNodes) /\ PagIdle /\ ParIdle /\ StyIdle /\ WrapIdle /\ PlIdle /\ FfiIdle
    /\ JsonIdle /\ ListIdle

CallBodyChildren ==
    /\ bc_pc = "run"
    /\ bc_result' = body_children(bc_nodes)
    /\ bc_pc' = "done"
    /\ UNCHANGED bc_nodes
    /\ UNCHANGED notBody

BodyNext == CallBodyChildren
SpecBody == BodyInit /\ [][BodyNext]_vars

\* The `<body>` elements of a forest that stand at top level or inside a
\* top-level `<html>` (or an `<html>` inside one), in document order.
RECURSIVE BodiesOf(_)
BodiesOf(nodes) ==
    IF nodes = <<>> THEN <<>>
    ELSE LET e == Head(nodes)
         IN  (IF e.type = "Element" /\ e.tag = KnownTag("Body") THEN <<e>>
              ELSE IF e.type = "Element" /\ e.tag = KnownTag("Html")
                   THEN BodiesOf(e.children) ELSE <<>>)
             \o BodiesOf(Tail(nodes))

\* C19: body_children returns exactly the children of a `<body>` whenever
\* one is present, at top level or inside `<html>`, also when that body has
\* no children; it returns the whole forest only when no body is present.
C19_BodyChildren ==
    bc_pc = "done" =>
        /\ BodiesOf(bc_nodes) # <<>> =>
              \E i \in 1..Len(BodiesOf(bc_nodes)) : bc_result = BodiesOf(bc_nodes)[i].children
        /\ (bc_result = bc_nodes /\ bc_nodes # <<>>) => BodiesOf(bc_nodes) = <<>>

(***************************************************************************)
(*          LayoutConfig::to_json / from_json (layout_config.rs)           *)
(* The other sections compute with finite lengths and write them as        *)
(* integers.  Here a length is an f32: a finite number or one of NaN,      *)
(* +inf, -inf.  A JSON document is modelled by the value it denotes.       *)
(***************************************************************************)

F32(n) == [finite |-> TRUE, v |-> n]
NonFinite == [finite |-> FALSE, v |-> 0]

\* LayoutBox, PageLayout and LayoutConfig with their f32 fields as f32
\* values and their Option fields as options.
RECURSIVE FloatBox(_)
FloatBox(b) ==
    [x |-> F32(b.x), y |-> F32(b.y), width |-> F32(b.width), height |-> F32(b.height),
     border |-> [some |-> b.border # 0, width |-> F32(b.border)],
     text |-> [some |-> b.text # <<>>, lines |-> b.text],
     children |-> [i \in 1..Len(b.children) |-> FloatBox(b.children[i])]]
FloatPage(page) ==
    [page_index |-> page.page_index,
     boxes |-> [i \in 1..Len(page.boxes) |-> FloatBox(page.boxes[i])]]
\* The config paginate returns when called with the f32 `page_width`:
\* paginate copies page_width into page_width_pt and reads it nowhere else.
FloatConfig(cfg, page_width) ==
    [title |-> cfg.title, page_width_pt |-> page_width,
     page_height_pt |-> F32(cfg.page_height_pt),
     pages |-> [i \in 1..Len(cfg.pages) |-> FloatPage(cfg.pages[i])]]

\* JSON values
JNull == [t |-> "null", v |-> <<>>]
JNumber(n) == [t |-> "number", v |-> n]
JString(str) == [t |-> "string", v |-> str]
JArray(items) == [t |-> "array", v |-> items]
JObject(fields) == [t |-> "object", v |-> fields]

\* serde_json writes a finite f32 as a number and NaN, +inf, -inf as null.
serialize_f32(f) == IF f.finite THEN JNumber(f.v) ELSE JNull

\* #[derive(Serialize)] for LayoutBox, PageLayout, LayoutConfig
RECURSIVE serialize_box(_)
serialize_box(b) ==
    JObject([x |-> serialize_f32(b.x), y |-> serialize_f32(b.y),
             width |-> serialize_f32(b.width), height |-> serialize_f32(b.height),
             border |-> IF b.border.some
                        THEN JObject([width |-> serialize_f32(b.border.width)])
                        ELSE JNull,
             text |-> IF b.text.some
                      THEN JObject([lines |-> JArray([i \in 1..Len(b.text.lines) |->
                                                         JString(b.text.lines[i])])])
                      ELSE JNull,
             children |-> JArray([i \in 1..Len(b.children) |->
                                     serialize_box(b.children[i])])])
serialize_page(page) ==
    JObject([page_index |-> JNumber(page.page_index),
             boxes |-> JArray([i \in 1..Len(page.boxes) |-> serialize_box(page.boxes[i])])])
to_json(cfg) ==
    JObject([title |-> JString(cfg.title),
             page_width_pt |-> serialize_f32(cfg.page_width_pt),
             page_height_pt |-> serialize_f32(cfg.page_height_pt),
             pages |-> JArray([i \in 1..Len(cfg.pages) |-> serialize_page(cfg.pages[i])])])

\* Result<T, String>; an Err carries no value of T (here: a placeholder).
Ok(v) == [ok |-> TRUE, v |-> v]
Err(placeholder) == [ok |-> FALSE, v |-> placeholder]

\* An f32 field accepts a number and nothing else: null is an error.
deserialize_f32(j) == IF j.t = "number" THEN Ok(F32(j.v)) ELSE Err(F32(0))

\* #[derive(Deserialize)] for LayoutBox, PageLayout, LayoutConfig
RECURSIVE deserialize_box(_)
deserialize_box(j) ==
    LET o == j.v
        x == deserialize_f32(o.x)
        y == deserialize_f32(o.y)
        w == deserialize_f32(o.width)
        h == deserialize_f32(o.height)
        border == IF o.border.t = "null" THEN Ok([some |-> FALSE, width |-> F32(0)])
                  ELSE LET bw == deserialize_f32(o.border.v.width)
                       IN  [ok |-> bw.ok, v |-> [some |-> TRUE, width |-> bw.v]]
        text == IF o.text.t = "null" THEN [some |-> FALSE, lines |-> <<>>]
                ELSE [some |-> TRUE,
                      lines |-> [i \in 1..Len(o.text.v.lines.v) |-> o.text.v.lines.v[i].v]]
        children == [i \in 1..Len(o.children.v) |-> deserialize_box(o.children.v[i])]
    IN  [ok |-> /\ x.ok /\ y.ok /\ w.ok /\ h.ok /\ border.ok
                /\ \A i \in 1..Len(children) : children[i].ok,
         v |-> [x |-> x.v, y |-> y.v, width |-> w.v, height |-> h.v,
                border |-> border.v, text |-> text,
                children |-> [i \in 1..Len(children) |-> children[i].v]]]
deserialize_page(j) ==
    LET bs == [i \in 1..Len(j.v.boxes.v) |-> deserialize_box(j.v.boxes.v[i])]
    IN  [ok |-> \A i \in 1..Len(bs) : bs[i].ok,
         v |-> [page_index |-> j.v.page_index.v, boxes |-> [i \in 1..Len(bs) |-> bs[i].v]]]
from_json(json) ==
    LET w == deserialize_f32(json.v.page_width_pt)
        h == deserialize_f32(json.v.page_height_pt)
        ps == [i \in 1..Len(json.v.pages.v) |-> deserialize_page(json.v.pages.v[i])]
    IN  [ok |-> w.ok /\ h.ok /\ \A i \in 1..Len(ps) : ps[i].ok,
         v |-> [title |-> json.v.title.v, page_width_pt |-> w.v, page_height_pt |-> h.v,
                pages |-> [i \in 1..Len(ps) |-> ps[i].v]]]

JsInitWith(maxBoxes) ==
    /\ \E cfg \in PipelineConfigs :
       \E doc \in UNION {[1..n -> PipelineKinds] : n \in 0..maxBoxes} :
       \E page_width \in {F32(effective_width(cfg)), NonFinite} :
          js_cfg = FloatConfig(LayoutOf(doc, cfg), page_width)
    /\ js_json = <<>>
    /\ js_back = <<>>
    /\ js_pc = "run"
JsInit ==
    JsInitWith(MaxBoxes) /\ PagIdle /\ ParIdle /\ StyIdle /\ WrapIdle /\ PlIdle /\ FfiIdle
    /\ BodyIdle /\ ListIdle

CallToJson ==
    /\ js_pc = "run" /\ js_json = <<>>
    /\ js_json' = <<to_json(js_cfg)>>
    /\ UNCHANGED <<js_cfg, js_back, js_pc>>
    /\ UNCHANGED notJson

CallFromJson ==
    /\ js_pc = "run" /\ js_json # <<>> /\ js_back = <<>>
    /\ js_back' = <<from_json(js_json[1])>>
    /\ UNCHANGED <<js_cfg, js_json, js_pc>>
    /\ UNCHANGED notJson

JsNext == CallToJson \/ CallFromJson
SpecJson == JsInit /\ [][JsNext]_vars

\* |a - b| <= 0.01 for two f32 values
Within(a, b) == a.finite /\ b.finite /\ (a.v - b.v) * 100 \in -1 .. 1

\* C18: for every Layout Config the paginator produces,
\* from_json(to_json(cfg)) succeeds and gives a config with the same number
\* of pages whose page width and height are within 0.01 of cfg's.
C18_JsonRoundTrip ==
    js_back # <<>> =>
        /\ js_back[1].ok
        /\ Len(js_back[1].v.pages) = Len(js_cfg.pages)
        /\ Within(js_back[1].v.page_width_pt, js_cfg.page_width_pt)
        /\ Within(js_back[1].v.page_height_pt, js_cfg.page_height_pt)

(***************************************************************************)
(*                           THE C ABI (ffi.rs)                            *)
(* Config lengths are in hundredths of a point: 595.28 pt is 59528.        *)
(***************************************************************************)

\* The calls of one run, numbered in the order they are made.
CallIds == 1 .. 3

Threads == {"t1", "t2"}

\* impl Default for PipelineConfig
DefaultPipelineConfig == PipelineConfig("rpdf output", 59528, 84189, 4000, "Portrait")

\* A C pointer to a string: null, or the bytes it points to, which are the
\* UTF-8 of the string s or are not valid UTF-8.
NullPtr == [s |-> "", null |-> TRUE, utf8 |-> TRUE]
PtrTo(str) == [s |-> str, null |-> FALSE, utf8 |-> TRUE]
InvalidUtf8Ptr == [s |-> "", null |-> FALSE, utf8 |-> FALSE]

\* RpdfPipelineConfig, and the `cfg` argument: NULL or a pointer to one.
RpdfPipelineConfig(title, page_width, page_height, page_margin, orientation) ==
    [title |-> title, page_margin |-> page_margin, page_width |-> page_width,
     page_height |-> page_height, orientation |-> orientation]
NullCfg == [v |-> RpdfPipelineConfig(NullPtr, 0, 0, 0, "Portrait"), null |-> TRUE]
CfgPtr(c) == [v |-> c, null |-> FALSE]
CConfigs ==
    {NullCfg} \cup
    {CfgPtr(RpdfPipelineConfig(t, w, h, m, o)) :
        t \in {NullPtr, PtrTo("Report"), InvalidUtf8Ptr}, w \in {0, 30000}, h \in {0, 40000},
        m \in {0, 2000}, o \in {"Portrait", "Landscape"}}

\* pipeline_config_from_c
pipeline_config_from_c_mutant(cfg) ==
    IF cfg.page_width = 0 \/ cfg.page_height = 0 \/ cfg.page_margin = 0 \/ cfg.title.null
    THEN [DefaultPipelineConfig EXCEPT !.orientation = cfg.orientation]
    ELSE PipelineConfig(IF cfg.title.utf8 THEN cfg.title.s ELSE "rpdf output",
                        cfg.page_width, cfg.page_height, cfg.page_margin, cfg.orientation)
pipeline_config_from_c(cfg) ==
    LET defaults == DefaultPipelineConfig
    IN  PipelineConfig(
            IF cfg.title.null THEN defaults.title
            ELSE IF cfg.title.utf8 THEN cfg.title.s ELSE "rpdf output",
            IF cfg.page_width = 0 THEN defaults.page_width ELSE cfg.page_width,
            IF cfg.page_height = 0 THEN defaults.page_height ELSE cfg.page_height,
            IF cfg.page_margin = 0 THEN defaults.page_margin ELSE cfg.page_margin,
            cfg.orientation)

\* `if cfg.is_null() { PipelineConfig::default() } else { pipeline_config_from_c(&*cfg) }`
ConfigOf(cfg) == IF cfg.null THEN DefaultPipelineConfig ELSE pipeline_config_from_c(cfg.v)

\* CString::new(msg).ok(): None when msg holds a NUL byte.  A message carries
\* the number of the call that produced it.
Message(id, str) == [text |-> str, id |-> id, nul |-> FALSE]
NoMessage == [some |-> FALSE, v |-> Message(0, "")]
CStringNew(msg) == IF msg.nul THEN NoMessage ELSE [some |-> TRUE, v |-> msg]

\* set_last_error on thread t
set_last_error(t, msg) == [LAST_ERROR EXCEPT ![t] = CStringNew(msg)]

\* The arguments of a call, as far as the ABI functions look at them:
\*   in_null   the input pointer (html_ptr / json_ptr) is null
\*   out_null  one of the output pointers is null
\*   utf8_ok   the input bytes are valid UTF-8
\*   json_ok   LayoutConfig::from_json accepts the input (render-from-layout)
\*   render    what render_pdf returns
\*   cfg       the `cfg` argument (the _ex variants)
Args(in_null, out_null, utf8_ok, json_ok, render, cfg) ==
    [cfg |-> cfg, render |-> render, in_null |-> in_null, out_null |-> out_null,
     utf8_ok |-> utf8_ok, json_ok |-> json_ok]

\* The document the valid html of a call stands for.
FfiDoc == <<[shape |-> "text", hs |-> <<1>>, bb |-> FALSE, ba |-> FALSE, avoid |-> FALSE]>>

NoError == [rc |-> 0, err |-> ""]
Failure(rc, err) == [rc |-> rc, err |-> err]

\* rpdf_generate_pdf, rpdf_generate_pdf_with_layout and their _ex variants:
\* the same body, with PipelineConfig::default() or the converted cfg.
generate_body(a, pconfig) ==
    IF a.in_null \/ a.out_null THEN Failure(1, "Null pointer argument")
    ELSE IF ~a.utf8_ok THEN Failure(2, "Invalid UTF-8")
    ELSE IF generate_pdf(FfiDoc, pconfig, a.render).ok THEN NoError
    ELSE Failure(3, "render error")

\* rpdf_compute_layout and rpdf_compute_layout_ex.  to_json writes no NUL
\* byte, so CString::new(json) is Ok.
compute_layout_body(a, pconfig) ==
    IF a.in_null \/ a.out_null THEN Failure(1, "Null pointer argument")
    ELSE IF ~a.utf8_ok THEN Failure(2, "Invalid UTF-8")
    ELSE NoError

\* rpdf_render_from_layout
render_from_layout_body(a) ==
    IF a.in_null \/ a.out_null THEN Failure(1, "Null pointer argument")
    ELSE IF ~a.utf8_ok THEN Failure(2, "Invalid UTF-8 in JSON")
    ELSE IF ~a.json_ok THEN Failure(3, "Invalid layout JSON")
    ELSE IF a.render = "Ok" THEN NoError
    ELSE Failure(4, "render error")

FfiInit ==
    /\ LAST_ERROR = [t \in Threads |-> NoMessage]
    /\ ffi_calls = 0
    /\ ffi_recent = [t \in Threads |-> [id |-> 0, rc |-> 0]]
    /\ ffi_last = <<>>
    /\ ffi_pc = "run"
    /\ PagIdle /\ ParIdle /\ StyIdle /\ WrapIdle /\ PlIdle /\ BodyIdle /\ JsonIdle /\ ListIdle

\* A fallible call `fn` on thread t with arguments a that ends with `res`;
\* `pconfig` is the PipelineConfig it ran with, if it got that far.
FallibleCall(t, fn, a, res, pconfig) ==
    /\ ffi_pc = "run"
    /\ ffi_calls + 1 \in CallIds
    /\ ffi_calls' = ffi_calls + 1
    /\ LAST_ERROR' = IF res.rc # 0 THEN set_last_error(t, Message(ffi_calls + 1, res.err))
                     ELSE LAST_ERROR
    /\ ffi_recent' = [ffi_recent EXCEPT ![t] = [id |-> ffi_calls + 1, rc |-> res.rc]]
    /\ ffi_last' = <<[thread |-> t, fn |-> fn, args |-> a, rc |-> res.rc,
                      config |-> IF a.in_null \/ a.out_null \/ ~a.utf8_ok
                                 THEN <<>> ELSE <<pconfig>>,
                      ret |-> NoMessage]>>
    /\ UNCHANGED ffi_pc
    /\ UNCHANGED notFfi

PlainArgs ==
    {Args(i, o, u, TRUE, r, NullCfg) : i \in BOOLEAN, o \in BOOLEAN, u \in BOOLEAN,
                                       r \in {"Ok", "Err"}}
\* The cfg is read only once the pointers and the bytes have been accepted.
ExArgs ==
    PlainArgs \cup {Args(FALSE, FALSE, TRUE, TRUE, r, c) : r \in {"Ok", "Err"}, c \in CConfigs}
LayoutOnly(as) == {a \in as : a.render = "Ok"}
JsonArgs ==
    {Args(i, o, u, j, r, NullCfg) : i \in BOOLEAN, o \in BOOLEAN, u \in BOOLEAN,
                                    j \in BOOLEAN, r \in {"Ok", "Err"}}

rpdf_generate_pdf ==
    \E t \in Threads : \E a \in PlainArgs :
        FallibleCall(t, "rpdf_generate_pdf", a,
                     generate_body(a, DefaultPipelineConfig), DefaultPipelineConfig)

rpdf_generate_pdf_with_layout ==
    \E t \in Threads : \E a \in PlainArgs :
        FallibleCall(t, "rpdf_generate_pdf_with_layout", a,
                     generate_body(a, DefaultPipelineConfig), DefaultPipelineConfig)

rpdf_compute_layout ==
    \E t \in Threads : \E a \in LayoutOnly(PlainArgs) :
        FallibleCall(t, "rpdf_compute_layout", a,
                     compute_layout_body(a, DefaultPipelineConfig), DefaultPipelineConfig)

rpdf_generate_pdf_ex ==
    \E t \in Threads : \E a \in ExArgs :
        FallibleCall(t, "rpdf_generate_pdf_ex", a,
                     generate_body(a, ConfigOf(a.cfg)), ConfigOf(a.cfg))

rpdf_generate_pdf_with_layout_ex ==
    \E t \in Threads : \E a \in ExArgs :
        FallibleCall(t, "rpdf_generate_pdf_with_layout_ex", a,
                     generate_body(a, ConfigOf(a.cfg)), ConfigOf(a.cfg))

rpdf_compute_layout_ex ==
    \E t \in Threads : \E a \in LayoutOnly(ExArgs) :
        FallibleCall(t, "rpdf_compute_layout_ex", a,
                     compute_layout_body(a, ConfigOf(a.cfg)), ConfigOf(a.cfg))

rpdf_render_from_layout ==
    \E t \in Threads : \E a \in JsonArgs :
        FallibleCall(t, "rpdf_render_from_layout", a,
                     render_from_layout_body(a), DefaultPipelineConfig)

\* rpdf_last_error: returns the slot of the calling thread, changes nothing.
rpdf_last_error ==
    /\ ffi_pc = "run"
    /\ ffi_calls + 1 \in CallIds
    /\ ffi_calls' = ffi_calls + 1
    /\ \E t \in Threads :
          ffi_last' = <<[thread |-> t, fn |-> "rpdf_last_error",
                         args |-> Args(FALSE, FALSE, TRUE, TRUE, "Ok", NullCfg),
                         rc |-> 0, config |-> <<>>, ret |-> LAST_ERROR[t]]>>
    /\ UNCHANGED <<LAST_ERROR, ffi_recent, ffi_pc>>
    /\ UNCHANGED notFfi

FfiNext ==
    \/ rpdf_generate_pdf
    \/ rpdf_generate_pdf_with_layout
    \/ rpdf_compute_layout
    \/ rpdf_generate_pdf_ex
    \/ rpdf_generate_pdf_with_layout_ex
    \/ rpdf_compute_layout_ex
    \/ rpdf_render_from_layout
    \/ rpdf_last_error
SpecFfi == FfiInit /\ [][FfiNext]_vars

\* The last call made, when it was a call of a fallible function.
LastCall == ffi_last[1]
LastIsFallible == ffi_last # <<>> /\ LastCall.fn # "rpdf_last_error"
ExFunctions ==
    {"rpdf_generate_pdf_ex", "rpdf_generate_pdf_with_layout_ex", "rpdf_compute_layout_ex"}
RenderingFunctions ==
    {"rpdf_generate_pdf", "rpdf_generate_pdf_with_layout", "rpdf_generate_pdf_ex",
     "rpdf_generate_pdf_with_layout_ex", "rpdf_render_from_layout"}
NullArgument(c) == c.args.in_null \/ c.args.out_null
RendererFails(c) ==
    /\ ~NullArgument(c) /\ c.args.utf8_ok /\ c.args.json_ok
    /\ c.fn \in RenderingFunctions /\ c.args.render = "Err"
Succeeds(c) ==
    /\ ~NullArgument(c) /\ c.args.utf8_ok /\ c.args.json_ok
    /\ (c.fn \in RenderingFunctions => c.args.render = "Ok")

C13_SlotIsOfMostRecentCall ==
    /\ \A t \in Threads :
          (ffi_pc = "run" /\ LAST_ERROR[t].some) => LAST_ERROR[t].v.id = ffi_recent[t].id
    /\ (ffi_last # <<>> /\ LastCall.fn = "rpdf_last_error" /\ LastCall.ret.some)
          => LastCall.ret.v.id = ffi_recent[LastCall.thread].id

\* C14: an _ex function runs with the default configuration when cfg is
\* null; otherwise each zero numeric field and a null title fall back, each
\* on its own, to 595.28, 841.89, 40 and "rpdf output", and every non-zero
\* field, a given title and the orientation are taken as given.
C14_ExConfigDefaults ==
    (LastIsFallible /\ LastCall.fn \in ExFunctions /\ LastCall.config # <<>>) =>
        LET cfg == LastCall.args.cfg
            c == cfg.v
            used == LastCall.config[1]
        IN  IF cfg.null
            THEN used = PipelineConfig("rpdf output", 59528, 84189, 4000, "Portrait")
            ELSE /\ c.title.null => used.title = "rpdf output"
                 /\ (~c.title.null /\ c.title.utf8) => used.title = c.title.s
                 /\ used.page_width = (IF c.page_width = 0 THEN 59528 ELSE c.page_width)
                 /\ used.page_height = (IF c.page_height = 0 THEN 84189 ELSE c.page_height)
                 /\ used.page_margin = (IF c.page_margin = 0 THEN 4000 ELSE c.page_margin)
                 /\ used.orientation = c.orientation
C14_Witness ==
    /\ LastIsFallible /\ LastCall.fn \in ExFunctions /\ LastCall.rc = 0
    /\ ~LastCall.args.cfg.null
    /\ LastCall.args.cfg.v.page_width = 0
    /\ LastCall.args.cfg.v.page_height # 0
    /\ ~LastCall.args.cfg.v.title.null
    /\ LastCall.args.cfg.v.orientation = "Landscape"
    /\ LastCall.config[1].page_width = 59528

(***************************************************************************)
(*              LIST MARKERS (layout.rs, build_element_node)               *)
(* The loop over `children` of one element: an `li` child gets a marker    *)
(* string, recorded as the child's BoxContent::ListItem.                   *)
(***************************************************************************)

\* StyledNode (style.rs), as far as the loop reads it.
StyledElement(tag) == [tag |-> tag, type |-> "Element"]
StyledText == [tag |-> KnownTag("None"), type |-> "Text"]

\* format!("{}", n) for n >= 0: the decimal digits, as characters.
DigitChar(d) == SubSeq(<<"0", "1", "2", "3", "4", "5", "6", "7", "8", "9">>, d + 1, d + 1)
RECURSIVE format_u32(_)
format_u32(n) == IF n < 10 THEN DigitChar(n) ELSE format_u32(n \div 10) \o DigitChar(n % 10)

\* "\u{2022} ": a bullet and a space.
Bullet == <<"U+2022", " ">>

\* BoxContent::ListItem { marker } and what a child holds otherwise.
ListItem(marker) == [kind |-> "ListItem", marker |-> marker]
NotListItem == [kind |-> "Other", marker |-> <<>>]

\* `li_marker` of one iteration, given list_counter after its increment.
li_marker(tag, child, counter) ==
    IF child.type = "Element" /\ child.tag = KnownTag("Li")
    THEN IF tag = KnownTag("Ol")
         THEN ListItem(format_u32(counter) \o <<".", " ">>)
         ELSE ListItem(Bullet)
    ELSE NotListItem

ListParents == {KnownTag("Ul"), KnownTag("Ol"), KnownTag("Div"), KnownTag("Li")}
ListChildren == {StyledElement(KnownTag("Li")), StyledElement(KnownTag("P")), StyledText}
MaxItems == 3

ListInit ==
    /\ ls_tag \in ListParents
    /\ ls_children \in UNION {[1..n -> ListChildren] : n \in 0..MaxItems}
    /\ list_counter = 0
    /\ node_content = <<>>
    /\ ls_pc = "loop"
    /\ PagIdle /\ ParIdle /\ StyIdle /\ WrapIdle /\ PlIdle /\ FfiIdle /\ BodyIdle
    /\ JsonIdle

\* One iteration of `for child in children`.
BuildChild ==
    /\ ls_pc = "loop"
    /\ Len(node_content) < Len(ls_children)
    /\ LET child == ls_children[Len(node_content) + 1]
           is_li == child.type = "Element" /\ child.tag = KnownTag("Li")
           counter == IF is_li THEN list_counter + 1 ELSE list_counter
       IN  /\ list_counter' = counter
           /\ node_content' = Append(node_content, li_marker(ls_tag, child, counter))
    /\ UNCHANGED <<ls_tag, ls_children, ls_pc>>
    /\ UNCHANGED notList

\* The loop is over; build_element_node goes on to create the node.
BuildElementNode ==
    /\ ls_pc = "loop"
    /\ Len(node_content) = Len(ls_children)
    /\ ls_pc' = "done"
    /\ UNCHANGED <<ls_tag, ls_children, list_counter, node_content>>
    /\ UNCHANGED notList

ListNext == BuildChild \/ BuildElementNode
SpecList == ListInit /\ [][ListNext]_vars

\* How many of the first i children are `li` elements.
LiAmong(i) ==
    Cardinality({j \in 1..i : ls_children[j] = StyledElement(KnownTag("Li"))})

\* C25 (as claimed): markers go only to the `li` children of `ul` and `ol`:
\* an `li` child of a `ul` gets the bullet, the k-th `li` child of an `ol`
\* gets "k. ", and every other child, an `li` under another parent included,
\* gets no marker.
C25_MarkersOnlyInLists ==
    \A i \in 1..Len(node_content) :
        LET is_li == ls_children[i] = StyledElement(KnownTag("Li"))
        IN  node_content[i] =
                CASE is_li /\ ls_tag = KnownTag("Ul") -> ListItem(Bullet)
                  [] is_li /\ ls_tag = KnownTag("Ol") ->
                        ListItem(format_u32(LiAmong(i)) \o <<".", " ">>)
                  [] OTHER -> NotListItem

====
